---- MODULE Spec2Model ----
(***************************************************************************)
(* SemanticSearchService (src/search/service.py) as a state machine.       *)
(*                                                                         *)
(* One service instance owns an embedding cache and a vector-store client. *)
(* A public operation runs as a sequence of steps: argument defaults, the  *)
(* embedding of the query (cache, direct HTTP request, ollama fallback),   *)
(* the vector-store round trip and the client-side post-processing.  The   *)
(* embedding provider and the vector store are the environment: they       *)
(* answer, fail, or (the provider) stay silent.                            *)
(*                                                                         *)
(* Similarity scores and thresholds are written in hundredths (0.15 = 15). *)
(* A Python string is a sequence of one-character strings; an Optional     *)
(* value is None (the empty tuple) or Some(x) (a one-element tuple).       *)
(***************************************************************************)
EXTENDS Integers, Sequences, FiniteSets, TLC

VARIABLES
    config,           \* SearchConfig of the service (never reassigned)
    embedding_cache,  \* self._embedding_cache restricted to the tracked keys
    cache_others,     \* number of its entries stored under other keys
    client,           \* self._client has been created
    pc,               \* position of the running operation ("idle": none)
    call,             \* the running (or last) operation and its arguments
    locals,           \* limit, min_score, query_embedding of the running call
    provider_log,     \* provider round trips of this call, with their answers
    store_log,        \* requests this call sent to the vector store
    store_answer,     \* points of the last vector-store answer
    outcome,          \* what the last completed call returned or raised
    embed_ret,        \* what _embed_query returned or raised in this call
    start_cache,      \* embedding_cache when this call began
    prev_embed,       \* summary of the previous _embed_query call (non-empty query)
    tool,             \* the MCP tool call or CLI command in progress, and its result
    threads,          \* threads inside _embed_query at once: position, key, vector
    provided          \* (key, vector) pairs the provider has answered to threads

vars == << config, embedding_cache, cache_others, client, pc, call, locals,
           provider_log, store_log, store_answer, outcome, embed_ret,
           start_cache, prev_embed, tool, threads, provided >>

-----------------------------------------------------------------------------
(* Bounds of the model *)

\* largest embedding_dimension a configuration is given
MaxDim == 2
\* largest limit a caller passes, and largest configured default limit
MaxLimit == 2
\* most points one vector-store answer holds
MaxStorePoints == 3

(* Program constants *)

\* service.py:71  if len(self._embedding_cache) < 100
CacheLimit == 100
\* config.py:28  "similarity_threshold": 0.15, in hundredths
DefaultSimilarityThreshold == 15
\* config.py:27  "search_limit": 10
DefaultSearchLimit == 10
\* config.py:32  "hybrid_semantic_weight": 0.85, in hundredths
HybridSemanticWeight == 85
\* config.py:33  "mmr_lambda": 0.75, in hundredths
MmrLambda == 75

-----------------------------------------------------------------------------
(* Python values *)

None == << >>
Some(x) == << x >>

\* Python truthiness of an Optional number: None and 0 are falsy
Truthy(opt) == opt # None /\ opt[1] # 0

\* `a or b` on an Optional number a and a number b
PyOr(opt, default) == IF Truthy(opt) THEN opt[1] ELSE default

Min(a, b) == IF a <= b THEN a ELSE b

\* list[:n] for n >= 0
Take(s, n) == SubSeq(s, 1, Min(n, Len(s)))

\* characters str.strip() removes
Whitespace == {" ", "\t"}

RECURSIVE LStrip(_)
LStrip(s) ==
    IF s # << >> /\ Head(s) \in Whitespace THEN LStrip(Tail(s)) ELSE s

RECURSIVE RStrip(_)
RStrip(s) ==
    IF s # << >> /\ s[Len(s)] \in Whitespace
    THEN RStrip(SubSeq(s, 1, Len(s) - 1))
    ELSE s

\* str.strip()
Strip(s) == RStrip(LStrip(s))


-----------------------------------------------------------------------------
(* Inputs and environment answers *)

\* query strings callers pass; their trimmed forms are the tracked cache keys
QueryStrings ==
    { << >>, << " " >>, << "a" >>, << " ", "a", "\t" >>, << "C", "a", "t" >> }

Queries == {None} \cup {Some(s) : s \in QueryStrings}

\* components of the vectors the embedding provider answers with
ProviderValues == {1, 2}

ProviderVectors(dim) == {[i \in 1..dim |-> c] : c \in ProviderValues}

\* similarity scores the store reports, in hundredths, by point number
StoreScores == << 60, 30, 10, 100, 0 >>

StoreFilenames ==
    << << "a", ".", "m", "d" >>, << "C", "a", "t", ".", "m", "d" >> >>

StoreTexts == << << "c", "a", "t" >>, << "a", " ", "C", "a", "t" >>, << "d", "o", "g" >> >>

\* the vector a point carries: None unless the store was asked for vectors
StoreVectors == << Some(<< 1, 0 >>), Some(<< 1, 1 >>), None, Some(<< 1, 0 >>) >>

\* the i-th point of the collection as query_points answers it
StorePoint(i) ==
    [ id       |-> i,
      filename |-> StoreFilenames[((i - 1) % Len(StoreFilenames)) + 1],
      text     |-> StoreTexts[((i - 1) % Len(StoreTexts)) + 1],
      score    |-> StoreScores[((i - 1) % Len(StoreScores)) + 1],
      vector   |-> StoreVectors[((i - 1) % Len(StoreVectors)) + 1],
      location |-> i ]

PointIds == 1..MaxStorePoints

\* every list of distinct points, in any order: the store is free to ignore
\* the limit and the score threshold it was sent
StoreAnswers ==
    { [k \in 1..Len(s) |-> StorePoint(s[k])] :
        s \in { t \in UNION {[1..n -> PointIds] : n \in 0..MaxStorePoints} :
                  \A i, j \in 1..Len(t) : i # j => t[i] # t[j] } }

\* the answers the specification of the embedding path draws from
CoreAnswers == { a \in StoreAnswers : \A k \in 1..Len(a) : a[k].id = k }

\* SearchConfig objects (src/search/models.py:58-67)
SearchConfig(dim, limit, threshold) ==
    [ embedding_dimension          |-> dim,
      default_limit                |-> limit,
      default_similarity_threshold |-> threshold,
      hybrid_semantic_weight       |-> HybridSemanticWeight,
      mmr_lambda                   |-> MmrLambda ]

NoOutcome == [status |-> "none", value |-> None]
Returned(v) == [status |-> "returned", value |-> v]
Raised(e) == [status |-> "raised", value |-> e]

\* one call of an operation with its arguments (None: not passed)
CallOf(op, query, limit, min_similarity_score, semantic_weight, metadata_filter, document_id) ==
    [ limit |-> limit, op |-> op, query |-> query,
      min_similarity_score |-> min_similarity_score,
      semantic_weight |-> semantic_weight,
      metadata_filter |-> metadata_filter,
      document_id |-> document_id ]

-----------------------------------------------------------------------------
(* _embed_query, service.py:40-82 *)

\* service.py:42-45  None becomes "", then strip()
NormalizeQuery(query) == Strip(IF query = None THEN << >> ELSE query[1])

\* mutant: the zero vector has a fixed length, not the configured one
ZeroVector_FixedLength(dim) == [i \in 1..1 |-> 0]

\* service.py:49  [0.0] * self.config.embedding_dimension
ZeroVector(dim) == [i \in 1..dim |-> 0]

\* len(self._embedding_cache)
CacheSize(cache, others) == Cardinality(DOMAIN cache) + others

\* mutant: the cache is never consulted
CacheHit_NeverHits(cache, key) == FALSE

\* service.py:52  normalized_query in self._embedding_cache
CacheHit(cache, key) == key \in DOMAIN cache

\* mutant: the capacity test is <= instead of <
CacheStore_OffByOne(cache, others, key, embedding) ==
    IF CacheSize(cache, others) <= CacheLimit
    THEN [k \in DOMAIN cache \cup {key} |-> IF k = key THEN embedding ELSE cache[k]]
    ELSE cache

\* service.py:71-72  store only while the cache holds fewer than 100 entries
CacheStore(cache, others, key, embedding) ==
    IF CacheSize(cache, others) < CacheLimit
    THEN [k \in DOMAIN cache \cup {key} |-> IF k = key THEN embedding ELSE cache[k]]
    ELSE cache

\* _embed_query returns `embedding` to the operation that called it
EmbedReturns(embedding) ==
    /\ embed_ret' = Returned(embedding)
    /\ locals' = [locals EXCEPT !.query_embedding = embedding]
    /\ pc' = "embedded"

\* the answer of the pending provider round trip is recorded
Answered(log, how) == [log EXCEPT ![Len(log)] = how]

\* service.py:42-66  empty query, cache hit, or the direct HTTP request is sent
EmbedLookup ==
    /\ pc = "embed"
    /\ LET normalized_query == NormalizeQuery(call.query) IN
         IF normalized_query = << >>
         THEN /\ EmbedReturns(ZeroVector(config.embedding_dimension))
              /\ UNCHANGED provider_log
         ELSE IF CacheHit(embedding_cache, normalized_query)
         THEN /\ EmbedReturns(embedding_cache[normalized_query])
              /\ UNCHANGED provider_log
         ELSE /\ pc' = "http"
              /\ provider_log' = Append(provider_log, "pending")
              /\ UNCHANGED << embed_ret, locals >>
    /\ UNCHANGED << threads, provided, tool, config, embedding_cache, cache_others, client, call,
                    store_log, store_answer, outcome, start_cache, prev_embed >>

\* service.py:67-74  the direct request answers 200 with an embedding
HttpOk(embedding) ==
    /\ pc = "http"
    /\ provider_log' = Answered(provider_log, "ok")
    /\ embedding_cache' = CacheStore(embedding_cache, cache_others,
                                     NormalizeQuery(call.query), embedding)
    /\ EmbedReturns(embedding)
    /\ UNCHANGED << threads, provided, tool, config, cache_others, client, call, store_log,
                    store_answer, outcome, start_cache, prev_embed >>

\* service.py:75-81  the except branch: the ollama library is called instead
FallbackToOllama(how) ==
    /\ provider_log' = Append(Answered(provider_log, how), "pending")
    /\ pc' = "fallback"
    /\ UNCHANGED << threads, provided, tool, config, embedding_cache, cache_others, client, call, locals,
                    store_log, store_answer, outcome, embed_ret, start_cache,
                    prev_embed >>

\* service.py:59-68  connection error, error status or malformed body
HttpError ==
    /\ pc = "http"
    /\ FallbackToOllama("error")

\* service.py:65  timeout=5 expires before the provider answers
HttpTimeout ==
    /\ pc = "http"
    /\ FallbackToOllama("timeout")

\* service.py:78-82  ollama.embed answers; the vector is returned, not cached
OllamaOk(embedding) ==
    /\ pc = "fallback"
    /\ provider_log' = Answered(provider_log, "ok")
    /\ EmbedReturns(embedding)
    /\ UNCHANGED << threads, provided, tool, config, embedding_cache, cache_others, client, call,
                    store_log, store_answer, outcome, start_cache, prev_embed >>

\* mutant: a failed fallback is answered with the zero vector
OllamaError_ZeroVector ==
    /\ pc = "fallback"
    /\ provider_log' = Answered(provider_log, "error")
    /\ EmbedReturns(ZeroVector(config.embedding_dimension))
    /\ UNCHANGED << threads, provided, tool, config, embedding_cache, cache_others, client, call,
                    store_log, store_answer, outcome, start_cache, prev_embed >>

\* service.py:78-81  ollama.embed raises: nothing catches it in the service
OllamaError ==
    /\ pc = "fallback"
    /\ provider_log' = Answered(provider_log, "error")
    /\ embed_ret' = Raised("ProviderUnavailable")
    /\ outcome' = Raised("ProviderUnavailable")
    /\ pc' = "done"
    /\ UNCHANGED << threads, provided, tool, config, embedding_cache, cache_others, client, call, locals,
                    store_log, store_answer, start_cache, prev_embed >>


-----------------------------------------------------------------------------
(* Lexical scorer, service.py:399-496; keyword scores are in hundredths *)

\* str.lower() on the characters the model uses
LowerChar(c) == CASE c = "C" -> "c" [] c = "A" -> "a" [] OTHER -> c

Lower(s) == [i \in 1..Len(s) |-> LowerChar(s[i])]

\* characters the regular expression class \w does not match
NonWordChars == Whitespace \cup {".", "-", "!"}

\* re.findall(r'\b\w+\b', s): the maximal runs of word characters
RECURSIVE FindWords(_, _)
FindWords(s, word) ==
    IF s = << >>
    THEN IF word = << >> THEN << >> ELSE << word >>
    ELSE IF Head(s) \in NonWordChars
         THEN (IF word = << >> THEN << >> ELSE << word >>) \o FindWords(Tail(s), << >>)
         ELSE FindWords(Tail(s), Append(word, Head(s)))

\* service.py:416-425
simple_stopwords ==
    { << "t", "h", "e" >>,
      << "a" >>,
      << "a", "n" >>,
      << "a", "n", "d" >>,
      << "o", "r" >>,
      << "b", "u", "t" >>,
      << "i", "n" >>,
      << "o", "n" >>,
      << "a", "t" >>,
      << "t", "o" >>,
      << "f", "o", "r" >>,
      << "o", "f" >>,
      << "w", "i", "t", "h" >>,
      << "b", "y" >>,
      << "f", "r", "o", "m" >>,
      << "u", "p" >>,
      << "a", "b", "o", "u", "t" >>,
      << "i", "n", "t", "o" >>,
      << "t", "h", "r", "o", "u", "g", "h" >>,
      << "d", "u", "r", "i", "n", "g" >>,
      << "b", "e", "f", "o", "r", "e" >>,
      << "a", "f", "t", "e", "r" >>,
      << "a", "b", "o", "v", "e" >>,
      << "b", "e", "l", "o", "w" >>,
      << "b", "e", "t", "w", "e", "e", "n" >>,
      << "a", "m", "o", "n", "g" >>,
      << "i", "s" >>,
      << "a", "r", "e" >>,
      << "w", "a", "s" >>,
      << "w", "e", "r", "e" >>,
      << "b", "e" >>,
      << "b", "e", "e", "n" >>,
      << "b", "e", "i", "n", "g" >>,
      << "h", "a", "v", "e" >>,
      << "h", "a", "s" >>,
      << "h", "a", "d" >>,
      << "d", "o" >>,
      << "d", "o", "e", "s" >>,
      << "d", "i", "d" >>,
      << "w", "i", "l", "l" >>,
      << "w", "o", "u", "l", "d" >>,
      << "c", "o", "u", "l", "d" >>,
      << "s", "h", "o", "u", "l", "d" >>,
      << "m", "a", "y" >>,
      << "m", "i", "g", "h", "t" >>,
      << "c", "a", "n" >>,
      << "t", "h", "i", "s" >>,
      << "t", "h", "a", "t" >>,
      << "t", "h", "e", "s", "e" >>,
      << "t", "h", "o", "s", "e" >>,
      << "i" >>,
      << "y", "o", "u" >>,
      << "h", "e" >>,
      << "s", "h", "e" >>,
      << "i", "t" >>,
      << "w", "e" >>,
      << "t", "h", "e", "y" >>,
      << "w", "h", "a", "t" >>,
      << "w", "h", "i", "c", "h" >>,
      << "w", "h", "o" >>,
      << "w", "h", "e", "n" >>,
      << "w", "h", "e", "r", "e" >>,
      << "w", "h", "y" >>,
      << "h", "o", "w" >>,
      << "n", "o", "t" >>,
      << "n", "o" >>,
      << "y", "e", "s" >>,
      << "i", "f" >>,
      << "t", "h", "e", "n" >>,
      << "e", "l", "s", "e" >>,
      << "t", "h", "e", "r", "e" >>,
      << "h", "e", "r", "e" >> }

\* service.py:412-432  _extract_search_terms
ExtractSearchTerms(query) ==
    SelectSeq(FindWords(Lower(query), << >>),
              LAMBDA term : Len(term) > 2 /\ term \notin simple_stopwords)

\* `term in text` on strings
Contains(text, term) ==
    \E i \in 1..(Len(text) - Len(term) + 1) :
        SubSeq(text, i, i + Len(term) - 1) = term

\* text.count(term): non-overlapping occurrences from the left, term non-empty
RECURSIVE CountOccurrences(_, _)
CountOccurrences(text, term) ==
    IF Len(text) < Len(term) THEN 0
    ELSE IF SubSeq(text, 1, Len(term)) = term
         THEN 1 + CountOccurrences(SubSeq(text, Len(term) + 1, Len(text)), term)
         ELSE CountOccurrences(Tail(text), term)

RECURSIVE SumSeq(_)
SumSeq(s) == IF s = << >> THEN 0 ELSE Head(s) + SumSeq(Tail(s))

\* mutant: coverage alone, never capped at 1.0, weighted by occurrences
KeywordScore_NoCap(result, query_terms, normalized_query) ==
    LET text_lower == Lower(result.text)
        matched == SelectSeq(query_terms, LAMBDA term : Contains(text_lower, term))
    IN  ((100 * Len(matched)) \div Len(query_terms))
            + SumSeq([k \in 1..Len(matched) |->
                        Min(CountOccurrences(text_lower, matched[k]) * 10, 30)])

\* service.py:465-468  matches: one more for every entry of query_terms that
\* occurs in the text, a repeated term counted at every repetition
KeywordMatches(result, query_terms) ==
    Len(SelectSeq(query_terms, LAMBDA term : Contains(Lower(result.text), term)))

\* service.py:459-494  the keyword score of one result
KeywordScore(result, query_terms, normalized_query) ==
    LET text_lower == Lower(result.text)
        filename_lower == Lower(result.filename)
        term_count == Len(query_terms)
        matched == SelectSeq(query_terms, LAMBDA term : Contains(text_lower, term))
        matches == KeywordMatches(result, query_terms)
        occurrence == SumSeq([k \in 1..matches |->
                         Min(CountOccurrences(text_lower, matched[k]) * 10, 30)])
        phrase == IF normalized_query # << >> /\ Contains(text_lower, normalized_query)
                  THEN 30 ELSE 0
        filename_hits == Len(SelectSeq(query_terms,
                                LAMBDA term : Contains(filename_lower, term)))
        filename_bonus == IF filename_lower # << >> /\ filename_hits > 0
                          THEN Min((100 * filename_hits) \div term_count, 20)
                          ELSE 0
        base_score == (100 * matches) \div term_count
    IN  Min(base_score + occurrence + phrase + filename_bonus, 100)

\* mutant: no result is ever scored
CalculateKeywordScores_Empty(results, query_terms, raw_query) == << >>

\* service.py:451-496  _calculate_keyword_scores: a dict keyed by result.id,
\* a later result overwriting an earlier one of the same id
CalculateKeywordScores(results, query_terms, raw_query) ==
    IF query_terms = << >>
    THEN << >>
    ELSE LET normalized_query == Lower(Strip(raw_query))
             ids == {results[k].id : k \in 1..Len(results)}
             last(i) == CHOOSE k \in 1..Len(results) :
                           /\ results[k].id = i
                           /\ \A j \in 1..Len(results) : results[j].id = i => j <= k
         IN  [i \in ids |-> KeywordScore(results[last(i)], query_terms, normalized_query)]


-----------------------------------------------------------------------------
(* Fusion and diversity re-ranking, service.py:189-223 and 324-397 *)

\* dict.get(key, default)
DictGet(d, key, default) == IF key \in DOMAIN d THEN d[key] ELSE default

\* mutant: a keyword score of exactly 0.8 is boosted too
BoostedKeyword_FromThreshold(keyword_score, keyword_boost_factor) ==
    IF keyword_score >= 80
    THEN keyword_score * keyword_boost_factor
    ELSE keyword_score * 100

\* service.py:195-196  keyword_score *= keyword_boost_factor above 0.8;
\* the factor is in hundredths, the product is kept exact (ten-thousandths)
BoostedKeyword(keyword_score, keyword_boost_factor) ==
    IF keyword_score > 80
    THEN keyword_score * keyword_boost_factor
    ELSE keyword_score * 100

\* mutant: the boosted keyword score is not clamped to 1.0
FinalScore_NoClamp(score, keyword_score, semantic_weight, keyword_boost_factor) ==
    semantic_weight * score
        + (100 - semantic_weight) * (BoostedKeyword(keyword_score, keyword_boost_factor) \div 100)

\* service.py:199-205  the fused score, in ten-thousandths:
\* semantic_weight * score + (1 - semantic_weight) * min(keyword_score, 1.0)
FinalScore(score, keyword_score, semantic_weight, keyword_boost_factor) ==
    LET normalized_keyword ==
            Min(BoostedKeyword(keyword_score, keyword_boost_factor), 10000) \div 100
    IN  semantic_weight * score + (100 - semantic_weight) * normalized_keyword

\* list.sort(key=score, reverse=True): stable, descending
RECURSIVE SortByScoreDesc(_)
SortByScoreDesc(results) ==
    IF results = << >> THEN << >>
    ELSE LET best == CHOOSE k \in 1..Len(results) :
                        /\ \A j \in 1..Len(results) : results[j].score <= results[k].score
                        /\ \A j \in 1..(k - 1) : results[j].score < results[k].score
         IN  << results[best] >> \o
             SortByScoreDesc(SubSeq(results, 1, best - 1) \o
                             SubSeq(results, best + 1, Len(results)))

\* mutant: the rescored list is handed on without being sorted
FuseScores_Unsorted(semantic_results, keyword_scores, semantic_weight, keyword_boost_factor) ==
    [k \in 1..Len(semantic_results) |->
        [semantic_results[k] EXCEPT
            !.score = FinalScore(semantic_results[k].score,
                                 DictGet(keyword_scores, semantic_results[k].id, 0),
                                 semantic_weight, keyword_boost_factor)]]

\* service.py:190-222  stage 3: every semantic result rescored, then sorted
FuseScores(semantic_results, keyword_scores, semantic_weight, keyword_boost_factor) ==
    SortByScoreDesc(
        [k \in 1..Len(semantic_results) |->
            [semantic_results[k] EXCEPT
                !.score = FinalScore(semantic_results[k].score,
                                     DictGet(keyword_scores, semantic_results[k].id, 0),
                                     semantic_weight, keyword_boost_factor)]])

RECURSIVE SqrtSearch(_, _, _)
SqrtSearch(n, lo, hi) ==
    IF lo = hi THEN lo
    ELSE LET mid == (lo + hi + 1) \div 2
         IN  IF mid * mid <= n THEN SqrtSearch(n, mid, hi) ELSE SqrtSearch(n, lo, mid - 1)

\* floor of the square root
ISqrt(n) == SqrtSearch(n, 0, n)

\* service.py:324-346  _cosine_similarity in hundredths, over the common prefix;
\* an absent or empty vector, or a zero norm, gives 0
CosineSimilarity(vec_a, vec_b) ==
    IF vec_a = None \/ vec_b = None THEN 0
    ELSE IF vec_a[1] = << >> \/ vec_b[1] = << >> THEN 0
    ELSE LET a == vec_a[1]
             b == vec_b[1]
             length == Min(Len(a), Len(b))
             dot_product == SumSeq([i \in 1..length |-> a[i] * b[i]])
             norm_a == SumSeq([i \in 1..length |-> a[i] * a[i]])
             norm_b == SumSeq([i \in 1..length |-> b[i] * b[i]])
             magnitude == ISqrt((10000 * dot_product * dot_product) \div (norm_a * norm_b))
         IN  IF norm_a = 0 \/ norm_b = 0 THEN 0
             ELSE IF dot_product < 0 THEN 0 - magnitude ELSE magnitude

\* `if candidate.embedding`: a vector that is present and not empty
HasEmbedding(result) == result.embedding # None /\ result.embedding[1] # << >>

Max(S) == CHOOSE x \in S : \A y \in S : y <= x

\* mutant: the penalty is the similarity to the result selected last
DiversityPenalty_LastSelected(candidate, selected) ==
    IF selected # << >> /\ HasEmbedding(candidate)
          /\ HasEmbedding(selected[Len(selected)])
    THEN CosineSimilarity(candidate.embedding, selected[Len(selected)].embedding)
    ELSE 0

\* service.py:371-379  the largest similarity to a selected result with an embedding
DiversityPenalty(candidate, selected) ==
    LET similarities == { CosineSimilarity(candidate.embedding, selected[k].embedding) :
                            k \in { j \in 1..Len(selected) : HasEmbedding(selected[j]) } }
    IN  IF selected # << >> /\ HasEmbedding(candidate) /\ similarities # {}
        THEN Max(similarities)
        ELSE 0

\* service.py:381  lambda * score - (1 - lambda) * diversity_penalty
MmrScore(candidate, selected, lambda_param) ==
    lambda_param * candidate.score
        - (100 - lambda_param) * DiversityPenalty(candidate, selected) * 100

\* mutant: the candidate with the greatest fused score is taken, whatever its
\* diversity penalty
BestCandidate_GreatestScore(candidates, selected, lambda_param) ==
    CHOOSE k \in 1..Len(candidates) :
        /\ \A j \in 1..Len(candidates) : candidates[j].score <= candidates[k].score
        /\ \A j \in 1..(k - 1) : candidates[j].score < candidates[k].score

\* mutant: among candidates of equal mmr_score the last one wins
BestCandidate_LastOfTies(candidates, selected, lambda_param) ==
    CHOOSE k \in 1..Len(candidates) :
        /\ \A j \in 1..Len(candidates) :
              MmrScore(candidates[j], selected, lambda_param)
                 <= MmrScore(candidates[k], selected, lambda_param)
        /\ \A j \in (k + 1)..Len(candidates) :
              MmrScore(candidates[j], selected, lambda_param)
                 < MmrScore(candidates[k], selected, lambda_param)

\* service.py:367-385  the first candidate with the strictly greatest mmr_score
BestCandidate(candidates, selected, lambda_param) ==
    CHOOSE k \in 1..Len(candidates) :
        /\ \A j \in 1..Len(candidates) :
              MmrScore(candidates[j], selected, lambda_param)
                 <= MmrScore(candidates[k], selected, lambda_param)
        /\ \A j \in 1..(k - 1) :
              MmrScore(candidates[j], selected, lambda_param)
                 < MmrScore(candidates[k], selected, lambda_param)

\* service.py:366-391  the selection loop
RECURSIVE MmrLoop(_, _, _, _)
MmrLoop(selected, candidates, limit, lambda_param) ==
    IF candidates # << >> /\ Len(selected) < limit
    THEN LET best == BestCandidate(candidates, selected, lambda_param)
         IN  MmrLoop(Append(selected, candidates[best]),
                     SubSeq(candidates, 1, best - 1) \o
                         SubSeq(candidates, best + 1, Len(candidates)),
                     limit, lambda_param)
    ELSE Take(selected \o (IF Len(selected) < limit
                           THEN Take(candidates, limit - Len(selected))
                           ELSE << >>),
              limit)

\* mutant: a list of at most one result is returned whole
RerankWithMmr_NoTruncate(results, limit, lambda_param) ==
    IF Len(results) <= 1
    THEN results
    ELSE MmrLoop(<< >>, results, limit, lambda_param)

\* service.py:348-397  _rerank_with_mmr
RerankWithMmr(results, limit, lambda_param) ==
    IF Len(results) <= 1
    THEN Take(results, limit)
    ELSE MmrLoop(<< >>, results, limit, lambda_param)


-----------------------------------------------------------------------------
(* The retrieval operations, service.py:84-322 and 498-513 *)

\* service.py:86-99  _convert_to_search_results
ConvertToSearchResults(qdrant_results) ==
    [k \in 1..Len(qdrant_results) |->
        [ id        |-> qdrant_results[k].id,
          filename  |-> qdrant_results[k].filename,
          text      |-> qdrant_results[k].text,
          score     |-> qdrant_results[k].score,
          location  |-> qdrant_results[k].location,
          embedding |-> qdrant_results[k].vector ]]

\* service.py:118, 165, 285  limit or self.config.default_limit
EffectiveLimit(limit) == PyOr(limit, config.default_limit)

\* service.py:119, 166, 286  min_similarity_score or the configured default
EffectiveMinScore(min_similarity_score) ==
    PyOr(min_similarity_score, config.default_similarity_threshold)

\* service.py:139-140  re-filter only when stricter than the default
FilterStricter(results, min_score) ==
    IF min_score > config.default_similarity_threshold
    THEN SelectSeq(results, LAMBDA r : r.score >= min_score)
    ELSE results

\* mutant: the results are not cut to limit
SemanticResults_NoTruncate(points, limit, min_score) ==
    FilterStricter(ConvertToSearchResults(points), min_score)

\* service.py:136-142  what semantic_search makes of the store's points
SemanticResults(points, limit, min_score) ==
    Take(FilterStricter(ConvertToSearchResults(points), min_score), limit)

\* service.py:184-222  stages 2 and 3 of hybrid_search: final_results, sorted
FusedResults(semantic_results, query, semantic_weight, keyword_boost_factor) ==
    LET query_terms == ExtractSearchTerms(query)
        keyword_scores == CalculateKeywordScores(semantic_results, query_terms,
                                                 Lower(query))
    IN  FuseScores(semantic_results, keyword_scores,
                   semantic_weight, keyword_boost_factor)

\* mutant: the fused list is returned as it is, without the re-ranking step
HybridResults_NoRerank(semantic_results, query, semantic_weight, limit, keyword_boost_factor) ==
    FusedResults(semantic_results, query, semantic_weight, keyword_boost_factor)

\* service.py:184-223  stages 2 and 3 of hybrid_search and the re-ranking
HybridResults(semantic_results, query, semantic_weight, limit, keyword_boost_factor) ==
    RerankWithMmr(FusedResults(semantic_results, query, semantic_weight,
                               keyword_boost_factor),
                  limit, config.mmr_lambda)

\* service.py:150  keyword_boost_factor: float = 1.5, in hundredths
KeywordBoostFactor == 150

\* mutant: only the first entry of the mapping becomes a condition
BuildFilter_FirstOnly(metadata_filter) ==
    LET filter_conditions ==
            SelectSeq(metadata_filter, LAMBDA entry : ~entry.is_dict)
    IN  IF filter_conditions # << >> THEN Some(Take(filter_conditions, 1)) ELSE None

\* service.py:292-306, 310  equality conditions; dict values add none
BuildFilter(metadata_filter) ==
    LET filter_conditions ==
            SelectSeq(metadata_filter, LAMBDA entry : ~entry.is_dict)
    IN  IF filter_conditions # << >> THEN Some(filter_conditions) ELSE None

NoLocals ==
    [ limit |-> 0, semantic_weight |-> 0, query_embedding |-> None,
      min_score |-> 0, hybrid_limit |-> 0 ]

\* what the summary of the last _embed_query call on a non-empty query becomes
EmbedSummary ==
    IF embed_ret.status # "none" /\ NormalizeQuery(call.query) # << >>
    THEN Some([ key    |-> NormalizeQuery(call.query),
                result |-> embed_ret,
                calls  |-> Len(provider_log),
                cached |-> NormalizeQuery(call.query) \in DOMAIN embedding_cache ])
    ELSE prev_embed

\* a caller invokes an operation on the idle service
StartCall(c, l, first_pc) ==
    /\ pc = "idle"
    /\ call' = c
    /\ locals' = l
    /\ pc' = first_pc
    /\ start_cache' = embedding_cache
    /\ UNCHANGED << threads, provided, config, embedding_cache, cache_others, client, provider_log,
                    store_log, store_answer, outcome, embed_ret, prev_embed >>

NoCall == CallOf("none", None, None, None, None, None, None)

\* no tool call or CLI command is in progress: the service is called directly
NoTool == [result |-> "none", via |-> "direct", name |-> "none", arguments |-> NoCall]

\* the caller has the outcome: the call's frame is gone, the service is idle
Return ==
    /\ \/ pc = "done" /\ tool.via = "direct"
       \/ pc = "returned"
    /\ pc' = "idle"
    /\ call' = NoCall
    /\ locals' = NoLocals
    /\ provider_log' = << >>
    /\ store_log' = << >>
    /\ store_answer' = << >>
    /\ outcome' = NoOutcome
    /\ embed_ret' = NoOutcome
    /\ start_cache' = << >>
    /\ prev_embed' = EmbedSummary
    /\ tool' = NoTool
    /\ UNCHANGED << threads, provided, config, embedding_cache, cache_others, client >>

\* service.py:40  _embed_query called directly
EmbedQuery(query) ==
    StartCall(CallOf("_embed_query", query, None, None, None, None, None),
              NoLocals, "embed")

\* service.py:118-122  semantic_search up to its call of _embed_query
SemanticSearch(query, limit, min_similarity_score) ==
    StartCall(CallOf("semantic_search", query, limit, min_similarity_score,
                     None, None, None),
              [NoLocals EXCEPT !.limit = EffectiveLimit(limit),
                               !.min_score = EffectiveMinScore(min_similarity_score)],
              "embed")

\* service.py:165-178 then 118-122  hybrid_search calls
\* semantic_search(query, limit=limit * 2, min_similarity_score=min_score)
HybridSearch(query, semantic_weight, limit, min_similarity_score) ==
    LET hybrid_limit == EffectiveLimit(limit)
        min_score == EffectiveMinScore(min_similarity_score)
    IN  StartCall(CallOf("hybrid_search", query, limit, min_similarity_score,
                         semantic_weight, None, None),
                  [NoLocals EXCEPT
                      !.hybrid_limit = hybrid_limit,
                      !.semantic_weight =
                          IF semantic_weight # None THEN semantic_weight[1]
                          ELSE config.hybrid_semantic_weight,
                      !.limit = EffectiveLimit(Some(hybrid_limit * 2)),
                      !.min_score = EffectiveMinScore(Some(min_score))],
                  "embed")

\* service.py:285-289  search_with_metadata_filter up to _embed_query
SearchWithMetadataFilter(query, metadata_filter, limit, min_similarity_score) ==
    StartCall(CallOf("search_with_metadata_filter", query, limit,
                     min_similarity_score, None, metadata_filter, None),
              [NoLocals EXCEPT !.limit = EffectiveLimit(limit),
                               !.min_score = EffectiveMinScore(min_similarity_score)],
              "embed")

\* a request to the vector store; get_qdrant_client (service.py:29-34) first
SendToStore(request) ==
    /\ client' = TRUE
    /\ store_log' = Append(store_log, request)

StoreRequest(method, query, limit, score_threshold, filter) ==
    [ limit |-> limit, query |-> query, method |-> method,
      score_threshold |-> score_threshold, filter |-> filter ]

\* service.py:74, 82  _embed_query, called directly, hands its vector back
EmbedQueryReturn ==
    /\ pc = "embedded"
    /\ call.op = "_embed_query"
    /\ outcome' = embed_ret
    /\ pc' = "done"
    /\ UNCHANGED << threads, provided, tool, config, embedding_cache, cache_others, client, call, locals,
                    provider_log, store_log, store_answer, embed_ret,
                    start_cache, prev_embed >>

\* service.py:125-133  query_points with limit * 2 and the score threshold
SendSemanticQuery ==
    /\ pc = "embedded"
    /\ call.op \in {"semantic_search", "hybrid_search"}
    /\ SendToStore(StoreRequest("query_points", locals.query_embedding,
                                locals.limit * 2, Some(locals.min_score), None))
    /\ pc' = "query"
    /\ UNCHANGED << threads, provided, tool, config, embedding_cache, cache_others, call, locals,
                    provider_log, store_answer, outcome, embed_ret,
                    start_cache, prev_embed >>

\* service.py:291-320  query_points with the filter, limit and threshold
SendFilteredQuery ==
    /\ pc = "embedded"
    /\ call.op = "search_with_metadata_filter"
    /\ call.metadata_filter # None
    /\ SendToStore(StoreRequest("query_points", locals.query_embedding,
                                locals.limit, Some(locals.min_score),
                                BuildFilter(call.metadata_filter[1])))
    /\ pc' = "query"
    /\ UNCHANGED << threads, provided, tool, config, embedding_cache, cache_others, call, locals,
                    provider_log, store_answer, outcome, embed_ret,
                    start_cache, prev_embed >>

\* the running call ends with `result`
Finish(result) ==
    /\ outcome' = result
    /\ pc' = "done"
    /\ UNCHANGED << threads, provided, tool, config, embedding_cache, cache_others, client, call, locals,
                    provider_log, store_log, embed_ret, start_cache, prev_embed >>

\* service.py:133-142  semantic_search: convert, re-filter, truncate
SemanticSearchAnswer(points) ==
    /\ pc = "query"
    /\ call.op = "semantic_search"
    /\ store_answer' = points
    /\ Finish(Returned(SemanticResults(points, locals.limit, locals.min_score)))

\* service.py:180-223  hybrid_search on the inner semantic_search's results;
\* query.lower() raises AttributeError on None
HybridSearchAnswer(points) ==
    /\ pc = "query"
    /\ call.op = "hybrid_search"
    /\ store_answer' = points
    /\ LET semantic_results == SemanticResults(points, locals.limit, locals.min_score)
       IN  IF semantic_results = << >>
           THEN Finish(Returned(<< >>))
           ELSE IF call.query = None
           THEN Finish(Raised("AttributeError"))
           ELSE Finish(Returned(HybridResults(semantic_results, call.query[1],
                                              locals.semantic_weight,
                                              locals.hybrid_limit,
                                              KeywordBoostFactor)))

\* service.py:320-322  search_with_metadata_filter returns the converted points
FilteredSearchAnswer(points) ==
    /\ pc = "query"
    /\ call.op = "search_with_metadata_filter"
    /\ store_answer' = points
    /\ Finish(Returned(ConvertToSearchResults(points)))

\* service.py:126, 238, 312  the store call raises; nothing catches it
StoreError ==
    /\ pc \in {"query", "scroll"}
    /\ UNCHANGED store_answer
    /\ Finish(Raised("StoreUnavailable"))

\* service.py:29-34  QdrantClient(...) raises when get_qdrant_client creates the
\* client (service.py:125, 235, 309, 500); the try of get_collection_info
\* begins after that call (501), so nothing in the service catches it
ClientError ==
    /\ pc \in {"embedded", "retrieve", "inspect"}
    /\ call.op # "_embed_query"
    /\ call.op = "search_with_metadata_filter" => call.metadata_filter # None
    /\ client = FALSE
    /\ UNCHANGED store_answer
    /\ Finish(Raised("ClientUnavailable"))

\* service.py:293  metadata_filter.items() raises AttributeError when the value
\* given as metadata_filter is no mapping (None in the call's frame)
FilterError ==
    /\ pc = "embedded"
    /\ call.op = "search_with_metadata_filter"
    /\ call.metadata_filter = None
    /\ UNCHANGED << client, store_answer >>
    /\ Finish(Raised("AttributeError"))

\* service.py:225  document_retrieval is called
DocumentRetrieval(document_id) ==
    StartCall(CallOf("document_retrieval", None, None, None, None, None,
                     Some(document_id)),
              NoLocals, "retrieve")

\* service.py:235-249  scroll with the id filter and limit 1
SendScroll ==
    /\ pc = "retrieve"
    /\ SendToStore(StoreRequest("scroll", None, 1, None,
                                Some(<< [value |-> call.document_id[1], key |-> "id",
                                         is_dict |-> FALSE] >>)))
    /\ pc' = "scroll"
    /\ UNCHANGED << threads, provided, tool, config, embedding_cache, cache_others, call, locals,
                    provider_log, store_answer, outcome, embed_ret,
                    start_cache, prev_embed >>

\* mutant: an empty page raises instead of returning None
ScrollAnswer_RaisesOnEmpty(points) ==
    /\ pc = "scroll"
    /\ \A k \in 1..Len(points) : points[k].id = call.document_id[1]
    /\ store_answer' = points
    /\ IF points = << >>
       THEN Finish(Raised("NotFound"))
       ELSE Finish(Returned(Some([ id        |-> points[1].id,
                                   filename  |-> points[1].filename,
                                   text      |-> points[1].text,
                                   location  |-> points[1].location,
                                   embedding |-> points[1].vector ])))

\* service.py:238-264  the store answers the page of points whose payload id
\* is document_id; None when the page is empty, else the first point
ScrollAnswer(points) ==
    /\ pc = "scroll"
    /\ \A k \in 1..Len(points) : points[k].id = call.document_id[1]
    /\ store_answer' = points
    /\ IF points = << >>
       THEN Finish(Returned(None))
       ELSE Finish(Returned(Some([ id        |-> points[1].id,
                                   filename  |-> points[1].filename,
                                   text      |-> points[1].text,
                                   location  |-> points[1].location,
                                   embedding |-> points[1].vector ])))

\* service.py:498  get_collection_info is called
GetCollectionInfo ==
    StartCall(CallOf("get_collection_info", None, None, None, None, None, None),
              NoLocals, "inspect")

\* service.py:500-502  get_collection on the client
SendGetCollection ==
    /\ pc = "inspect"
    /\ SendToStore(StoreRequest("get_collection", None, 0, None, None))
    /\ pc' = "info"
    /\ UNCHANGED << threads, provided, tool, config, embedding_cache, cache_others, call, locals,
                    provider_log, store_answer, outcome, embed_ret,
                    start_cache, prev_embed >>

\* service.py:503-511  the collection's counters as a dict
InfoAnswer(points_count) ==
    /\ pc = "info"
    /\ UNCHANGED store_answer
    /\ Finish(Returned([points_count |-> points_count, name |-> "collection"]))

\* service.py:512-513  a store exception becomes {"error": str(e)}
InfoError ==
    /\ pc = "info"
    /\ UNCHANGED store_answer
    /\ Finish(Returned([error |-> "StoreUnavailable"]))

-----------------------------------------------------------------------------
(* Specifications *)

Limits == {None} \cup {Some(n) : n \in 1..MaxLimit}

\* thresholds callers pass, in hundredths
MinScores == {None, Some(0), Some(50)}

\* semantic weights callers pass, in hundredths
Weights == {None, Some(50)}

MetadataFilters ==
    { << >>,
      << [value |-> << "a", ".", "m", "d" >>, key |-> "filename", is_dict |-> FALSE] >>,
      << [value |-> << "a", ".", "m", "d" >>, key |-> "filename", is_dict |-> FALSE],
         [value |-> << 1 >>, key |-> "location", is_dict |-> FALSE] >>,
      << [value |-> << "a", ".", "m", "d" >>, key |-> "filename", is_dict |-> FALSE],
         [value |-> << >>, key |-> "date", is_dict |-> TRUE] >> }

DocumentIds == {1, 99}

\* threads that call operations of one service instance at the same time
Threads == {1, 2}

\* a thread that is not inside _embed_query
NoFrame == [pc |-> "idle", key |-> << >>, embedding |-> None]

\* the state of a service between two calls: the cache may already hold
\* entries, up to CacheLimit of them under keys the model does not track
InitWith(configs, caches, others) ==
    /\ config \in configs
    /\ embedding_cache \in caches
    /\ cache_others \in others
    /\ client = FALSE
    /\ pc = "idle"
    /\ call = NoCall
    /\ locals = NoLocals
    /\ provider_log = << >>
    /\ store_log = << >>
    /\ store_answer = << >>
    /\ outcome = NoOutcome
    /\ embed_ret = NoOutcome
    /\ start_cache = << >>
    /\ prev_embed = None
    /\ tool = NoTool
    /\ threads = [t \in Threads |-> NoFrame]
    /\ provided = {}

\* the embedding provider's part in a call
ProviderSteps ==
    \/ \E v \in ProviderVectors(config.embedding_dimension) : HttpOk(v)
    \/ HttpError
    \/ \E v \in ProviderVectors(config.embedding_dimension) : OllamaOk(v)
    \/ OllamaError

\* the steps the service takes by itself
ServiceSteps ==
    \/ EmbedLookup
    \/ HttpTimeout
    \/ EmbedQueryReturn
    \/ SendSemanticQuery
    \/ SendFilteredQuery
    \/ SendScroll
    \/ SendGetCollection
    \/ Return

\* the vector store's answers to document_retrieval and get_collection_info
StoreSteps ==
    \/ StoreError
    \/ ClientError
    \/ \E a \in { s \in StoreAnswers : Len(s) <= 1 } : ScrollAnswer(a)
    \/ \E n \in 0..MaxStorePoints : InfoAnswer(n)
    \/ InfoError

Init ==
    InitWith({ SearchConfig(d, DefaultSearchLimit, DefaultSimilarityThreshold) :
                 d \in 1..MaxDim },
             { << >> },
             {0, CacheLimit - 1, CacheLimit})

\* every operation with default arguments, on every query
Next ==
    \/ \E q \in Queries : EmbedQuery(q) /\ UNCHANGED tool
    \/ \E q \in Queries : SemanticSearch(q, None, None) /\ UNCHANGED tool
    \/ \E q \in Queries : HybridSearch(q, None, None, None) /\ UNCHANGED tool
    \/ \E q \in Queries : SearchWithMetadataFilter(q, Some(<< >>), None, None) /\ UNCHANGED tool
    \/ \E d \in DocumentIds : DocumentRetrieval(d) /\ UNCHANGED tool
    \/ GetCollectionInfo /\ UNCHANGED tool
    \/ ProviderSteps
    \/ ServiceSteps
    \/ StoreSteps
    \/ \E a \in CoreAnswers : SemanticSearchAnswer(a)
    \/ \E a \in CoreAnswers : HybridSearchAnswer(a)
    \/ \E a \in CoreAnswers : FilteredSearchAnswer(a)

Spec == Init /\ [][Next]_vars

\* the service runs on; the store answers; the provider may stay silent
FairSpec == Spec /\ WF_vars(ServiceSteps) /\ WF_vars(StoreSteps)

SearchQueries == {None, Some(<< "C", "a", "t" >>)}

\* the cache already holds the embedding of the one non-empty search query
WarmCache == [k \in {NormalizeQuery(Some(<< "C", "a", "t" >>))} |-> << 1 >>]

InitSearch ==
    InitWith({ SearchConfig(1, l, t) :
                 l \in 1..MaxLimit, t \in {0, DefaultSimilarityThreshold} },
             { WarmCache },
             {0})

\* the searching operations with every limit, threshold, weight and filter,
\* against a store that answers any list of points
NextSearch ==
    \/ \E q \in SearchQueries, l \in Limits, m \in MinScores :
          SemanticSearch(q, l, m) /\ UNCHANGED tool
    \/ \E q \in SearchQueries, w \in Weights, l \in Limits, m \in MinScores :
          HybridSearch(q, w, l, m) /\ UNCHANGED tool
    \/ \E q \in SearchQueries, f \in MetadataFilters, l \in Limits, m \in MinScores :
          SearchWithMetadataFilter(q, Some(f), l, m) /\ UNCHANGED tool
    \/ EmbedLookup
    \/ SendSemanticQuery
    \/ SendFilteredQuery
    \/ Return
    \/ StoreError
    \/ \E a \in StoreAnswers : SemanticSearchAnswer(a)
    \/ \E a \in StoreAnswers : HybridSearchAnswer(a)
    \/ \E a \in StoreAnswers : FilteredSearchAnswer(a)

SearchSpec == InitSearch /\ [][NextSearch]_vars

-----------------------------------------------------------------------------
(* The lexical scorer, the fusion and the re-ranking applied to bounded inputs *)

\* a helper of the service is applied to `args` and returns `result`
Apply(fn, args, result) ==
    /\ pc = "idle"
    /\ call' = CallOf(fn, None, None, None, None, None, None)
    /\ locals' = args
    /\ outcome' = Returned(result)
    /\ pc' = "done"
    /\ start_cache' = embedding_cache
    /\ UNCHANGED << threads, provided, tool, config, embedding_cache, cache_others, client, provider_log,
                    store_log, store_answer, embed_ret, prev_embed >>

\* semantic scores of the candidates, in hundredths
SemanticScores == {0, DefaultSimilarityThreshold, 100}

\* keyword scores _calculate_keyword_scores can hand to the fusion, in hundredths
KeywordScores == {0, 50, 80, 81, 100}

\* semantic weights in [0,1], in hundredths
SemanticWeights == {0, 50, 85, 100}

\* lambda_param values in [0,1], in hundredths
Lambdas == {0, MmrLambda, 100}

\* fused scores of the candidates handed to the re-ranker, in ten-thousandths
FusedScores == {3000, 6000}

\* queries of the lexical scorer: "Cat", "cat dog", "the", "cat! cat"
KeywordQueries ==
    { << "C", "a", "t" >>,
      << "c", "a", "t", " ", "d", "o", "g" >>,
      << "t", "h", "e" >>,
      << "c", "a", "t", "!", " ", "c", "a", "t" >> }

\* queries of the fusion: "Cat", "cat dog", "the"
FusionQueries ==
    { << "C", "a", "t" >>, << "c", "a", "t", " ", "d", "o", "g" >>,
      << "t", "h", "e" >> }

\* the store's answers as SearchResults, every point with every semantic score
SemanticResultLists ==
    { [k \in 1..Len(a) |->
          [ConvertToSearchResults(a)[k] EXCEPT !.score = f[a[k].id]]] :
        a \in StoreAnswers, f \in [PointIds -> SemanticScores] }

\* candidates of the re-ranker: the points with every fused score
RerankPool ==
    { [ConvertToSearchResults(<< StorePoint(i) >>)[1] EXCEPT !.score = s] :
        i \in PointIds, s \in FusedScores }

\* candidate lists: the store's answers with every fused score, sorted or
\* not, and lists that hold one candidate twice
RerankLists ==
    { [k \in 1..Len(a) |->
          [ConvertToSearchResults(a)[k] EXCEPT !.score = f[a[k].id]]] :
        a \in StoreAnswers, f \in [PointIds -> FusedScores] }
    \cup { << x, y, x >> : x \in RerankPool, y \in RerankPool }

\* limits the re-ranker is given
RerankLimits == 0..(MaxLimit + 1)

\* service.py:199-205  one result's score is fused
FusionCall(score, keyword_score, semantic_weight) ==
    Apply("final_score",
          [ score |-> score, semantic_weight |-> semantic_weight,
            keyword_score |-> keyword_score ],
          FinalScore(score, keyword_score, semantic_weight, KeywordBoostFactor))

\* service.py:434  _calculate_keyword_scores(results, query_terms, raw_query)
KeywordScoresCall(results, query_terms, raw_query) ==
    Apply("_calculate_keyword_scores",
          [ query_terms |-> query_terms, results |-> results,
            raw_query |-> raw_query ],
          CalculateKeywordScores(results, query_terms, raw_query))

\* embeddings of the results given to the penalty: absent, empty, zero, and
\* vectors at every angle to one another
PenaltyVectors ==
    { None, Some(<< >>), Some(<< 0, 0 >>), Some(<< 1, 0 >>), Some(<< 0 - 1, 0 >>),
      Some(<< 1, 1 >>) }

\* the first point as a SearchResult that carries `embedding`
ResultWith(embedding) ==
    [ConvertToSearchResults(<< StorePoint(1) >>)[1] EXCEPT !.embedding = embedding]

\* service.py:370-379  the diversity penalty of a candidate against `selected`
PenaltyCall(candidate, selected) ==
    Apply("diversity_penalty",
          [ candidate |-> candidate, selected |-> selected ],
          DiversityPenalty(candidate, selected))

\* service.py:465-468  the matches of one result for the terms of a query
MatchesCall(result, query_terms) ==
    Apply("matches",
          [ result |-> result, query_terms |-> query_terms ],
          KeywordMatches(result, query_terms))

\* service.py:184-222  stages 2 and 3 of hybrid_search on semantic results
FusedResultsCall(results, query, semantic_weight) ==
    Apply("final_results",
          [ query |-> query, semantic_weight |-> semantic_weight,
            results |-> results ],
          FusedResults(results, query, semantic_weight, KeywordBoostFactor))

\* service.py:184-223  stages 2 and 3 and the re-ranking to limit
HybridResultsCall(results, query, semantic_weight, limit) ==
    Apply("hybrid_results",
          [ limit |-> limit, query |-> query,
            semantic_weight |-> semantic_weight, results |-> results ],
          HybridResults(results, query, semantic_weight, limit, KeywordBoostFactor))

\* service.py:348  _rerank_with_mmr(results, limit, lambda_param)
RerankCall(results, limit, lambda_param) ==
    Apply("_rerank_with_mmr",
          [ limit |-> limit, results |-> results, lambda_param |-> lambda_param ],
          RerankWithMmr(results, limit, lambda_param))

InitRanking ==
    InitWith({ SearchConfig(1, DefaultSearchLimit, DefaultSimilarityThreshold) },
             { << >> }, {0})

NextRanking ==
    \/ /\ pc = "idle"
       /\ \E c \in PenaltyVectors :
          \E s \in UNION { [1..n -> PenaltyVectors] : n \in 0..2 } :
             PenaltyCall(ResultWith(c), [k \in 1..Len(s) |-> ResultWith(s[k])])
    \/ /\ pc = "idle"
       /\ \E i \in PointIds, q \in KeywordQueries :
             MatchesCall(ConvertToSearchResults(<< StorePoint(i) >>)[1],
                         ExtractSearchTerms(q))
    \/ /\ pc = "idle"
       /\ \E s \in 0..100, k \in KeywordScores, w \in SemanticWeights :
             FusionCall(s, k, w)
    \/ /\ pc = "idle"
       /\ \E a \in StoreAnswers, q \in KeywordQueries, raw \in BOOLEAN :
             KeywordScoresCall(ConvertToSearchResults(a), ExtractSearchTerms(q),
                               IF raw THEN Lower(q) ELSE None)
    \/ /\ pc = "idle"
       /\ \E r \in SemanticResultLists, q \in FusionQueries,
             w \in {50, HybridSemanticWeight} :
             FusedResultsCall(r, q, w)
    \/ /\ pc = "idle"
       /\ \E r \in SemanticResultLists, q \in FusionQueries, l \in 1..MaxLimit :
             HybridResultsCall(r, q, 50, l)
    \/ /\ pc = "idle"
       /\ \E r \in RerankLists, l \in RerankLimits, lambda \in Lambdas :
             RerankCall(r, l, lambda)
    \/ Return

RankingSpec == InitRanking /\ [][NextRanking]_vars

-----------------------------------------------------------------------------
(* The front ends: handle_tool_call (mcp_server/tools.py:179-337) and        *)
(* run_mcp_command (cli.py:103-200)                                          *)

\* the arguments mapping of a tool call, or the parsed command line (None: absent)
Arguments(query, limit, metadata_filter, document_id) ==
    CallOf("arguments", query, limit, None, None, metadata_filter, document_id)

\* the value given for metadata_filter: a JSON object with its entries, JSON
\* that is no object, or (on the command line) text that is not JSON
FilterValue(kind, entries) == [kind |-> kind, entries |-> entries]

\* `not query`: the argument is absent or the empty string
Falsy(opt) == opt = None \/ Len(opt[1]) = 0

\* `not document_id`: the argument is absent or empty (0 stands for "")
FalsyId(opt) == opt = None \/ opt[1] = 0

\* the mapping the service is given: the entries of a JSON object, None for a
\* value that is no mapping
Mapping(filter_value) ==
    IF filter_value.kind = "object" THEN Some(filter_value.entries) ELSE None

\* arguments.get(key, default)
Get(opt, default) == IF opt = None THEN default ELSE opt[1]

\* the frame of a tool call or command
ToolFrame(via, name, arguments, result) ==
    [result |-> result, via |-> via, name |-> name, arguments |-> arguments]

\* the front end returns an error without calling the service
Reject(frame) ==
    /\ tool' = [frame EXCEPT !.result = "error"]
    /\ pc' = "returned"
    /\ UNCHANGED << threads, provided, config, embedding_cache, cache_others, client, call, locals,
                    provider_log, store_log, store_answer, outcome, embed_ret,
                    start_cache, prev_embed >>

\* tools.py:182-335  handle_tool_call up to its call of the search service
HandleToolCall(name, arguments) ==
    /\ pc = "idle"
    /\ LET frame == ToolFrame("mcp", name, arguments, "none")
           limit == Some(Get(arguments.limit, 10))
           min_similarity_score == Some(Get(arguments.min_similarity_score, 0))
           semantic_weight == Some(Get(arguments.semantic_weight, 70))
           metadata_filter == Get(arguments.metadata_filter, FilterValue("object", << >>))
       IN  CASE name = "semantic_search" ->
                  IF Falsy(arguments.query) THEN Reject(frame)
                  ELSE /\ tool' = frame
                       /\ SemanticSearch(arguments.query, limit, min_similarity_score)
             [] name = "hybrid_search" ->
                  IF Falsy(arguments.query) THEN Reject(frame)
                  ELSE /\ tool' = frame
                       /\ HybridSearch(arguments.query, semantic_weight, limit,
                                       min_similarity_score)
             [] name = "document_retrieval" ->
                  IF FalsyId(arguments.document_id) THEN Reject(frame)
                  ELSE /\ tool' = frame
                       /\ DocumentRetrieval(arguments.document_id[1])
             [] name = "search_with_metadata_filter" ->
                  IF Falsy(arguments.query) THEN Reject(frame)
                  ELSE /\ tool' = frame
                       /\ SearchWithMetadataFilter(arguments.query,
                                                   Mapping(metadata_filter),
                                                   limit, min_similarity_score)
             [] name = "get_collection_info" ->
                  /\ tool' = frame
                  /\ GetCollectionInfo
             [] OTHER -> Reject(frame)

\* cli.py:36-46  parse_metadata_filter raises ValueError
ParseFails(raw_filter) ==
    raw_filter # None /\ raw_filter[1].kind \in {"not_json", "not_object"}

\* cli.py:108-185  run_mcp_command up to its call of the search service
RunMcpCommand(name, args) ==
    /\ pc = "idle"
    /\ LET frame == ToolFrame("cli", name, args, "none")
           metadata_filter == Get(args.metadata_filter, FilterValue("object", << >>))
       IN  CASE name = "semantic_search" ->
                  IF Falsy(args.query) THEN Reject(frame)
                  ELSE /\ tool' = frame
                       /\ SemanticSearch(args.query, args.limit,
                                         args.min_similarity_score)
             [] name = "hybrid_search" ->
                  IF Falsy(args.query) THEN Reject(frame)
                  ELSE /\ tool' = frame
                       /\ HybridSearch(args.query, args.semantic_weight, args.limit,
                                       args.min_similarity_score)
             [] name = "document_retrieval" ->
                  IF FalsyId(args.document_id) THEN Reject(frame)
                  ELSE /\ tool' = frame
                       /\ DocumentRetrieval(args.document_id[1])
             [] name = "search_with_metadata_filter" ->
                  IF Falsy(args.query) \/ ParseFails(args.metadata_filter)
                  THEN Reject(frame)
                  ELSE /\ tool' = frame
                       /\ SearchWithMetadataFilter(args.query, Mapping(metadata_filter),
                                                   args.limit,
                                                   args.min_similarity_score)
             [] name = "get_collection_info" ->
                  /\ tool' = frame
                  /\ GetCollectionInfo
             [] OTHER -> Reject(frame)

\* mutant: an exception of the service escapes the front end
ToolResult_Propagates(name, service_outcome) ==
    IF service_outcome.status = "raised" THEN "raised"
    ELSE IF name = "document_retrieval" /\ service_outcome.value = None THEN "error"
    ELSE "ok"

\* tools.py:198-337, cli.py:121-200  what the front end makes of the service's
\* outcome: `except Exception` and a document that is None give an error
ToolResult(name, service_outcome) ==
    IF service_outcome.status = "raised" THEN "error"
    ELSE IF name = "document_retrieval" /\ service_outcome.value = None THEN "error"
    ELSE "ok"

\* the service call has ended and the front end returns its result
ToolReturn ==
    /\ pc = "done"
    /\ tool.via # "direct"
    /\ tool' = [tool EXCEPT !.result = ToolResult(tool.name, outcome)]
    /\ pc' = "returned"
    /\ UNCHANGED << threads, provided, config, embedding_cache, cache_others, client, call, locals,
                    provider_log, store_log, store_answer, outcome, embed_ret,
                    start_cache, prev_embed >>

\* tools.py:57-168  the tools, and a name that is none of them
ToolNames ==
    {"semantic_search", "hybrid_search", "document_retrieval",
     "search_with_metadata_filter", "get_collection_info", "unknown_tool"}

NoArguments == Arguments(None, None, None, None)

\* query arguments: absent, empty, "Cat"
ToolQueries == {None, Some(<< >>), Some(<< "C", "a", "t" >>)}

\* metadata_filter arguments: absent, objects of scalars, an object with a
\* nested object, JSON that is no object, text that is not JSON
ToolFilters ==
    {None} \cup {Some(FilterValue("object", f)) : f \in MetadataFilters}
           \cup {Some(FilterValue("not_object", << >>)),
                 Some(FilterValue("not_json", << >>))}

\* the argument mappings given to each tool
ToolArguments(name) ==
    CASE name \in {"semantic_search", "hybrid_search"} ->
            {Arguments(q, l, None, None) : q \in ToolQueries, l \in {None, Some(1)}}
      [] name = "search_with_metadata_filter" ->
            {Arguments(q, None, f, None) : q \in ToolQueries, f \in ToolFilters}
      [] name = "document_retrieval" ->
            {Arguments(None, None, None, d) :
                d \in {None, Some(0)} \cup {Some(i) : i \in DocumentIds}}
      [] OTHER -> {NoArguments}

\* tools.py:179  handle_tool_call is given decoded JSON, whatever its shape
McpArguments(name) ==
    { a \in ToolArguments(name) :
        a.metadata_filter # None => a.metadata_filter[1].kind # "not_json" }

InitTool ==
    InitWith({ SearchConfig(1, DefaultSearchLimit, DefaultSimilarityThreshold) },
             { << >> }, {0})

NextTool ==
    \/ /\ pc = "idle"
       /\ \E name \in ToolNames : \E a \in McpArguments(name) : HandleToolCall(name, a)
    \/ /\ pc = "idle"
       /\ \E name \in ToolNames : \E a \in ToolArguments(name) : RunMcpCommand(name, a)
    \/ EmbedLookup
    \/ ProviderSteps
    \/ HttpTimeout
    \/ SendSemanticQuery
    \/ SendFilteredQuery
    \/ SendScroll
    \/ SendGetCollection
    \/ FilterError
    \/ StoreSteps
    \/ \E a \in CoreAnswers : SemanticSearchAnswer(a)
    \/ \E a \in CoreAnswers : HybridSearchAnswer(a)
    \/ \E a \in CoreAnswers : FilteredSearchAnswer(a)
    \/ ToolReturn
    \/ Return

ToolSpec == InitTool /\ [][NextTool]_vars

-----------------------------------------------------------------------------
(* Concurrent callers of _embed_query (service.py:40-82): each access to the *)
(* shared cache is one step of the calling thread                            *)

\* the frame of thread t changes, the other threads stand still
ThreadStep(t, frame) ==
    /\ threads' = [threads EXCEPT ![t] = frame]
    /\ UNCHANGED << config, client, pc, call, locals, provider_log, store_log,
                    store_answer, outcome, embed_ret, start_cache, prev_embed,
                    tool >>

\* service.py:72  self._embedding_cache[normalized_query] = embedding
CachePut(cache, key, embedding) ==
    [k \in DOMAIN cache \cup {key} |-> IF k = key THEN embedding ELSE cache[k]]

\* service.py:42-49  thread t calls _embed_query; an empty query returns the
\* zero vector without touching the cache
ThreadEmbedQuery(t, query) ==
    /\ threads[t].pc = "idle"
    /\ LET normalized_query == NormalizeQuery(query) IN
         IF normalized_query = << >>
         THEN ThreadStep(t, [pc |-> "return", key |-> normalized_query,
                             embedding |-> Some(ZeroVector(config.embedding_dimension))])
         ELSE ThreadStep(t, [pc |-> "lookup", key |-> normalized_query,
                             embedding |-> None])
    /\ UNCHANGED << embedding_cache, cache_others, provided >>

\* service.py:52-53  the cache is read: a hit returns the cached vector
ThreadLookup(t) ==
    /\ threads[t].pc = "lookup"
    /\ IF CacheHit(embedding_cache, threads[t].key)
       THEN ThreadStep(t, [threads[t] EXCEPT
                              !.pc = "return",
                              !.embedding = Some(embedding_cache[threads[t].key])])
       ELSE ThreadStep(t, [threads[t] EXCEPT !.pc = "http"])
    /\ UNCHANGED << embedding_cache, cache_others, provided >>

\* service.py:59-68  the direct request answers with an embedding
ThreadHttpOk(t, embedding) ==
    /\ threads[t].pc = "http"
    /\ ThreadStep(t, [threads[t] EXCEPT !.pc = "check", !.embedding = Some(embedding)])
    /\ provided' = provided \cup {<< threads[t].key, embedding >>}
    /\ UNCHANGED << embedding_cache, cache_others >>

\* service.py:71  len(self._embedding_cache) < 100 is evaluated
ThreadCheckSize(t) ==
    /\ threads[t].pc = "check"
    /\ IF CacheSize(embedding_cache, cache_others) < CacheLimit
       THEN ThreadStep(t, [threads[t] EXCEPT !.pc = "store"])
       ELSE ThreadStep(t, [threads[t] EXCEPT !.pc = "return"])
    /\ UNCHANGED << embedding_cache, cache_others, provided >>

\* service.py:72  the entry is assigned, whatever the cache holds by now
ThreadStore(t) ==
    /\ threads[t].pc = "store"
    /\ embedding_cache' = CachePut(embedding_cache, threads[t].key,
                                   threads[t].embedding[1])
    /\ ThreadStep(t, [threads[t] EXCEPT !.pc = "return"])
    /\ UNCHANGED << cache_others, provided >>

\* service.py:75-77  the direct request fails: the ollama library is called
ThreadHttpError(t) ==
    /\ threads[t].pc = "http"
    /\ ThreadStep(t, [threads[t] EXCEPT !.pc = "fallback"])
    /\ UNCHANGED << embedding_cache, cache_others, provided >>

\* service.py:78-82  ollama.embed answers; the vector is returned, not cached
ThreadOllamaOk(t, embedding) ==
    /\ threads[t].pc = "fallback"
    /\ ThreadStep(t, [threads[t] EXCEPT !.pc = "return", !.embedding = Some(embedding)])
    /\ provided' = provided \cup {<< threads[t].key, embedding >>}
    /\ UNCHANGED << embedding_cache, cache_others >>

\* service.py:78-81  ollama.embed raises, and so does _embed_query
ThreadOllamaError(t) ==
    /\ threads[t].pc = "fallback"
    /\ ThreadStep(t, [threads[t] EXCEPT !.pc = "raise"])
    /\ UNCHANGED << embedding_cache, cache_others, provided >>

\* service.py:53, 49, 74, 82  _embed_query returns or raises to thread t's
\* operation
ThreadReturn(t) ==
    /\ threads[t].pc \in {"return", "raise"}
    /\ ThreadStep(t, NoFrame)
    /\ UNCHANGED << embedding_cache, cache_others, provided >>

\* queries of the concurrent callers: two keys, one of them untrimmed, and ""
ThreadQueries == {Some(<< >>), Some(<< " ", "a", "\t" >>), Some(<< "C", "a", "t" >>)}

InitConcurrent ==
    InitWith({ SearchConfig(1, DefaultSearchLimit, DefaultSimilarityThreshold) },
             { << >> },
             {0, CacheLimit - 2, CacheLimit - 1, CacheLimit})

NextConcurrent ==
    \E t \in Threads :
        \/ \E q \in ThreadQueries : ThreadEmbedQuery(t, q)
        \/ ThreadLookup(t)
        \/ \E v \in ProviderVectors(config.embedding_dimension) : ThreadHttpOk(t, v)
        \/ ThreadCheckSize(t)
        \/ ThreadStore(t)
        \/ ThreadHttpError(t)
        \/ \E v \in ProviderVectors(config.embedding_dimension) : ThreadOllamaOk(t, v)
        \/ ThreadOllamaError(t)
        \/ ThreadReturn(t)

ConcurrentSpec == InitConcurrent /\ [][NextConcurrent]_vars

-----------------------------------------------------------------------------
(* hybrid_search against a store that returns its points without vectors:    *)
(* query_points is not asked for them (service.py:126-133)                   *)

\* the points of a store answer with no vector attached
WithoutVectors(points) ==
    [k \in 1..Len(points) |-> [points[k] EXCEPT !.vector = None]]

\* services configured with every mmr_lambda, the query's embedding cached
InitNoVectors ==
    InitWith({ [SearchConfig(1, DefaultSearchLimit, t) EXCEPT !.mmr_lambda = lambda] :
                 t \in {0, DefaultSimilarityThreshold}, lambda \in Lambdas },
             { WarmCache },
             {0})

NextNoVectors ==
    \/ /\ pc = "idle"
       /\ \E w \in Weights \cup {Some(0), Some(100)}, l \in Limits :
             HybridSearch(Some(<< "C", "a", "t" >>), w, l, None) /\ UNCHANGED tool
    \/ EmbedLookup
    \/ SendSemanticQuery
    \/ \E a \in StoreAnswers : HybridSearchAnswer(WithoutVectors(a))
    \/ StoreError
    \/ Return

NoVectorSpec == InitNoVectors /\ [][NextNoVectors]_vars

-----------------------------------------------------------------------------
(* SearchConfig.__init__ (search/models.py:34-67); a dict is a function from *)
(* its keys                                                                  *)

\* config.py:18-34  the global configuration always holds the current key names
GlobalDefaults ==
    [ k \in {"embedding_dimension", "search_limit", "similarity_threshold",
             "hybrid_semantic_weight", "mmr_lambda"} |->
        CASE k = "embedding_dimension" -> 1024
          [] k = "search_limit" -> DefaultSearchLimit
          [] k = "similarity_threshold" -> DefaultSimilarityThreshold
          [] k = "hybrid_semantic_weight" -> HybridSemanticWeight
          [] OTHER -> MmrLambda ]

\* dict.update(other)
Update(d, other) ==
    [ k \in DOMAIN d \cup DOMAIN other |->
        IF k \in DOMAIN other THEN other[k] ELSE d[k] ]

\* config.py:68-81  an environment variable replaces a global setting
GlobalConfigs ==
    { GlobalDefaults, Update(GlobalDefaults, [k \in {"search_limit"} |-> 20]) }

\* models.py:44-55  if legacy in merged: merged[current] = merged[legacy]
LegacyAlias(merged_config, legacy, current) ==
    IF legacy \in DOMAIN merged_config
    THEN Update(merged_config, [k \in {current} |-> merged_config[legacy]])
    ELSE merged_config

\* models.py:36-67  SearchConfig(config_dict, **overrides)
SearchConfigInit(global_config, config_dict, overrides) ==
    LET merged == Update(Update(global_config, config_dict), overrides)
        with_limit == LegacyAlias(merged, "default_limit", "search_limit")
        merged_config == LegacyAlias(with_limit, "default_similarity_threshold",
                                     "similarity_threshold")
    IN  [ embedding_dimension |-> DictGet(merged_config, "embedding_dimension", 1024),
          default_limit |-> DictGet(merged_config, "search_limit", 10),
          default_similarity_threshold |->
              DictGet(merged_config, "similarity_threshold", 15),
          hybrid_semantic_weight |->
              DictGet(merged_config, "hybrid_semantic_weight", 85),
          mmr_lambda |-> DictGet(merged_config, "mmr_lambda", 75) ]

\* key names a caller may set, current and legacy
ConfigKeys ==
    {"search_limit", "default_limit", "similarity_threshold",
     "default_similarity_threshold", "hybrid_semantic_weight"}

\* the value a source gives a key: config_dict gives 1.. and the keyword
\* overrides 6.., so that every (source, key) pair is told apart
KeyValue(base, k) ==
    base + CASE k = "search_limit" -> 1
             [] k = "default_limit" -> 2
             [] k = "similarity_threshold" -> 3
             [] k = "default_similarity_threshold" -> 4
             [] OTHER -> 5

\* every dict over a subset of the keys
ConfigDicts(base) == { [k \in D |-> KeyValue(base, k)] : D \in SUBSET ConfigKeys }

\* models.py:34  SearchConfig(config_dict, **overrides) over `global_config`
SearchConfigCall(global_config, config_dict, overrides) ==
    Apply("SearchConfig",
          [ global_config |-> global_config, config_dict |-> config_dict,
            overrides |-> overrides ],
          SearchConfigInit(global_config, config_dict, overrides))

NextConfig ==
    \/ /\ pc = "idle"
       /\ \E g \in GlobalConfigs, d \in ConfigDicts(0), o \in ConfigDicts(5) :
             SearchConfigCall(g, d, o)
    \/ Return

ConfigSpec == InitRanking /\ [][NextConfig]_vars

-----------------------------------------------------------------------------
(* Properties *)

\* the trimmed query of the running call
Key == NormalizeQuery(call.query)

\* the operations that call _embed_query
EmbeddingOps ==
    {"_embed_query", "semantic_search", "hybrid_search", "search_with_metadata_filter"}

\* _embed_query has returned a vector in the running call
EmbedReturned == embed_ret.status = "returned"

\* the running call's _embed_query is the second of two on the same query
SecondOfTwo ==
    /\ prev_embed # None
    /\ embed_ret.status # "none"
    /\ prev_embed[1].key = Key

IsBlank(query) ==
    query = None \/ \A i \in 1..Len(query[1]) : query[1][i] \in Whitespace

\* C2: for a None, empty or whitespace-only query _embed_query returns exactly
\* config.embedding_dimension zeros, calls no provider and leaves the cache as
\* it was.
C2_BlankQueryZeroVector ==
    (call.op \in EmbeddingOps /\ IsBlank(call.query) /\ pc \notin {"idle", "embed"})
        => /\ EmbedReturned
           /\ Len(embed_ret.value) = config.embedding_dimension
           /\ \A i \in 1..Len(embed_ret.value) : embed_ret.value[i] = 0
           /\ provider_log = << >>
           /\ embedding_cache = start_cache

\* C2 witness: _embed_query has returned for a whitespace-only query
C2_Witness ==
    /\ pc = "done"
    /\ call.op = "_embed_query"
    /\ call.query = Some(<< " " >>)
    /\ outcome.status = "returned"

\* C3: the cache never holds more than 100 entries, and an entry once stored
\* is never removed or replaced.
C3_CacheBoundedAndStable ==
    /\ [](CacheSize(embedding_cache, cache_others) <= CacheLimit)
    /\ [][ /\ cache_others' >= cache_others
           /\ \A k \in DOMAIN embedding_cache :
                 /\ k \in DOMAIN embedding_cache'
                 /\ embedding_cache'[k] = embedding_cache[k] ]_vars

\* C3 witness: the provider answered a miss while the cache was full, and the
\* vector was not stored
C3_Witness ==
    /\ pc = "embedded"
    /\ provider_log = << "ok" >>
    /\ embedding_cache # << >>
    /\ CacheSize(embedding_cache, cache_others) = CacheLimit
    /\ Key \notin DOMAIN embedding_cache

\* C4 as stated: after a miss on a non-empty query with fewer than 100 entries
\* cached, a call that returns v leaves the cache mapping the query to v.
C4_MissStoresReturnedVector ==
    ( /\ call.op \in EmbeddingOps
      /\ EmbedReturned
      /\ Key # << >>
      /\ Key \notin DOMAIN start_cache
      /\ CacheSize(start_cache, cache_others) < CacheLimit )
        => /\ Key \in DOMAIN embedding_cache
           /\ embedding_cache[Key] = embed_ret.value

\* C5 as stated: an operation performs at most one embedding-provider round
\* trip per call, also when the provider's first answer is a failure or a
\* timeout.
C5_AtMostOneProviderRoundTrip == Len(provider_log) <= 1

\* every provider round trip of the running call was answered by a failure
ProviderUnreachable ==
    /\ provider_log # << >>
    /\ \A i \in 1..Len(provider_log) : provider_log[i] \in {"error", "timeout"}

\* C6: when every provider round trip of a call fails, the operation raises:
\* it returns nothing, sends nothing to the vector store and leaves the cache
\* as it was.
C6_UnreachableProviderRaises ==
    ProviderUnreachable
        => /\ pc = "done"
           /\ outcome.status = "raised"
           /\ embed_ret.status = "raised"
           /\ store_log = << >>
           /\ embedding_cache = start_cache

\* C6 witness: semantic_search ended after the direct request and the fallback
\* both failed
C6_Witness ==
    /\ pc = "done"
    /\ call.op = "semantic_search"
    /\ provider_log = << "error", "error" >>

\* C7 as stated: a call that waits for the embedding provider eventually
\* returns or raises, even if the provider never answers.
C7_EmbeddingCallEnds == (pc \in {"http", "fallback"}) ~> (pc = "done")

\* C8 as stated: semantic_search and search_with_metadata_filter return no
\* result scored below a caller's threshold that is stricter than the default.
C8_StricterThresholdEnforced ==
    ( /\ pc = "done"
      /\ call.op \in {"semantic_search", "search_with_metadata_filter"}
      /\ outcome.status = "returned"
      /\ call.min_similarity_score # None
      /\ call.min_similarity_score[1] > config.default_similarity_threshold )
        => \A k \in 1..Len(outcome.value) :
              outcome.value[k].score >= call.min_similarity_score[1]

\* C9 as stated: the score threshold sent to the store is the caller's
\* min_similarity_score whenever one is supplied, 0.0 included, and the
\* configured default only when none is supplied.
C9_CallerThresholdSent ==
    ( /\ call.op \in {"semantic_search", "hybrid_search", "search_with_metadata_filter"}
      /\ store_log # << >> )
        => store_log[1].score_threshold =
              IF call.min_similarity_score # None
              THEN call.min_similarity_score
              ELSE Some(config.default_similarity_threshold)

\* a is b with some elements left out
RECURSIVE IsSubsequence(_, _)
IsSubsequence(a, b) ==
    IF a = << >> THEN TRUE
    ELSE IF b = << >> THEN FALSE
    ELSE IF Head(a) = Head(b) THEN IsSubsequence(Tail(a), Tail(b))
    ELSE IsSubsequence(a, Tail(b))

IsDescending(results) ==
    \A k \in 1..(Len(results) - 1) : results[k].score >= results[k + 1].score

\* C10: for a limit >= 1, semantic_search returns at most limit results, in the
\* relative order of the store's answer (descending whenever that answer is).
C10_SemanticLimitAndOrder ==
    ( /\ pc = "done"
      /\ call.op = "semantic_search"
      /\ outcome.status = "returned"
      /\ call.limit # None )
        => /\ Len(outcome.value) <= call.limit[1]
           /\ IsSubsequence(outcome.value, ConvertToSearchResults(store_answer))
           /\ IsDescending(store_answer) => IsDescending(outcome.value)

\* C10 witness: the store answered more points than the limit, out of order
C10_Witness ==
    /\ pc = "done"
    /\ call.op = "semantic_search"
    /\ call.limit # None
    /\ Len(store_answer) > call.limit[1]
    /\ ~IsDescending(store_answer)
    /\ Len(outcome.value) = call.limit[1]


\* the helper `fn` has been applied and has returned
Applied(fn) == pc = "done" /\ call.op = fn /\ outcome.status = "returned"

\* C11: for every semantic score, keyword score and semantic_weight in [0,1]
\* the fused score lies in [0,1] (0..10000 in ten-thousandths), for one result
\* and for every result of the fused list.
C11_FusedScoreInUnitInterval ==
    /\ Applied("final_score") => outcome.value \in 0..10000
    /\ Applied("final_results") =>
          \A k \in 1..Len(outcome.value) : outcome.value[k].score \in 0..10000

\* C11 witness: a boosted keyword score was clamped and the fused score is 1.0
C11_Witness ==
    /\ Applied("final_score")
    /\ locals.keyword_score > 80
    /\ locals.semantic_weight \in 1..99
    /\ outcome.value = 10000

\* number of places of the list s that hold x
Count(x, s) == Cardinality({k \in 1..Len(s) : s[k] = x})

\* C12: for every candidate list, limit >= 0 and lambda in [0,1],
\* _rerank_with_mmr returns exactly min(limit, len(candidates)) items and
\* takes no candidate more often than the input holds it.
C12_MmrCardinality ==
    Applied("_rerank_with_mmr") =>
        /\ Len(outcome.value) = Min(locals.limit, Len(locals.results))
        /\ \A k \in 1..Len(outcome.value) :
              Count(outcome.value[k], outcome.value)
                 <= Count(outcome.value[k], locals.results)

\* C12 witness: three candidates, two of them equal, re-ranked to two
C12_Witness ==
    /\ Applied("_rerank_with_mmr")
    /\ Len(locals.results) = 3
    /\ locals.results[1] = locals.results[3]
    /\ locals.limit = 2
    /\ locals.lambda_param = MmrLambda
    /\ Len(outcome.value) = 2

\* C13 as stated: with lambda = 1 _rerank_with_mmr returns every candidate
\* list in its input order truncated to limit.
C13_LambdaOneKeepsInputOrder ==
    (Applied("_rerank_with_mmr") /\ locals.lambda_param = 100)
        => outcome.value = Take(locals.results, locals.limit)

\* C13 amended: with lambda = 1 _rerank_with_mmr returns a candidate list that
\* is sorted by descending score (as hybrid_search passes it) in its input
\* order truncated to limit.
C13_LambdaOneKeepsSortedOrder ==
    (Applied("_rerank_with_mmr") /\ locals.lambda_param = 100
        /\ IsDescending(locals.results))
        => outcome.value = Take(locals.results, locals.limit)

\* C13 witness: a sorted list whose first two candidates tie, lambda = 1
C13_Witness ==
    /\ Applied("_rerank_with_mmr")
    /\ locals.lambda_param = 100
    /\ Len(locals.results) = 3
    /\ IsDescending(locals.results)
    /\ locals.results[1].score = locals.results[2].score
    /\ locals.results[1] # locals.results[2]
    /\ locals.results[2].score > locals.results[3].score
    /\ locals.limit = 2

\* C14: every value of the mapping _calculate_keyword_scores returns lies in
\* [0,1] (0..100 in hundredths), and the mapping has one entry per result id
\* unless there are no query terms.
C14_KeywordScoresInUnitInterval ==
    Applied("_calculate_keyword_scores") =>
        /\ \A i \in DOMAIN outcome.value : outcome.value[i] \in 0..100
        /\ locals.query_terms = << >> => outcome.value = << >>
        /\ locals.query_terms # << >> =>
              DOMAIN outcome.value =
                 {locals.results[k].id : k \in 1..Len(locals.results)}

\* C14 witness: coverage, occurrence and phrase bonuses exceed 1.0 for one
\* result and are 0 for another
C14_Witness ==
    /\ Applied("_calculate_keyword_scores")
    /\ locals.raw_query # << >>
    /\ \E i, j \in DOMAIN outcome.value :
          outcome.value[i] = 100 /\ outcome.value[j] = 0

\* the text of r contains every term
FullMatch(r, terms) ==
    \A k \in 1..Len(terms) : Contains(Lower(r.text), terms[k])

\* neither the text nor the filename of r contains any term
NoMatch(r, terms) ==
    \A k \in 1..Len(terms) :
        /\ ~Contains(Lower(r.text), terms[k])
        /\ ~Contains(Lower(r.filename), terms[k])

\* the place of the result with this id in the list, 0 when it is absent
Place(id, results) ==
    IF \E k \in 1..Len(results) : results[k].id = id
    THEN CHOOSE k \in 1..Len(results) : results[k].id = id
    ELSE 0

\* result a stands above result b in the list, if b is in it at all
RankedAbove(a, b, results) ==
    Place(b.id, results) # 0 =>
        (Place(a.id, results) # 0 /\ Place(a.id, results) < Place(b.id, results))

Payload(point, key) ==
    CASE key = "filename" -> << point.filename >>
      [] key = "location" -> << << point.location >> >>
      [] key = "id" -> << << point.id >> >>
      [] OTHER -> << >>

\* the point satisfies every condition of Filter(must=conditions)
MatchesAll(point, conditions) ==
    \A k \in 1..Len(conditions) :
        Payload(point, conditions[k].key) = << conditions[k].value >>

\* the store's answer honours the filter of the request it was sent
HonoursFilter(points, filter) ==
    filter # None => \A k \in 1..Len(points) : MatchesAll(points[k], filter[1])

\* every entry of the mapping is field name -> scalar
ScalarFilter(metadata_filter) ==
    \A k \in 1..Len(metadata_filter) : ~metadata_filter[k].is_dict

C17_UnknownIdReturnsNone ==
    call.op = "document_retrieval" =>
        /\ provider_log = << >>
        /\ embed_ret = NoOutcome
        /\ embedding_cache = start_cache
        /\ (pc = "done" /\ call.document_id[1] \notin PointIds) =>
              \/ outcome = Returned(None)
              \/ /\ outcome.status = "raised"
                 /\ outcome.value \in {"StoreUnavailable", "ClientUnavailable"}
        /\ (pc = "done" /\ store_answer = << >> /\ outcome.status = "returned") =>
              outcome.value = None

\* C17 witness: the store answered an empty page for id 99 and None came back
C17_Witness ==
    /\ pc = "done"
    /\ call.op = "document_retrieval"
    /\ call.document_id[1] \notin PointIds
    /\ Len(store_log) = 1
    /\ store_log[1].method = "scroll"
    /\ outcome = Returned(None)

\* C18 as stated: get_collection_info never raises: every failure of the
\* store, a failure to obtain the connection included, comes back as a mapping
\* with an 'error' key.
C18_InfoNeverRaises ==
    (call.op = "get_collection_info" /\ pc = "done")
        => /\ outcome.status = "returned"
           /\ DOMAIN outcome.value \in {{"error"}, {"name", "points_count"}}

\* the arguments of the tool call in progress lack a required parameter
MissingParameter ==
    \/ /\ tool.name \in {"semantic_search", "hybrid_search",
                         "search_with_metadata_filter"}
       /\ Falsy(tool.arguments.query)
    \/ /\ tool.name = "document_retrieval"
       /\ FalsyId(tool.arguments.document_id)

\* the metadata filter given is not a mapping of field name to scalar
MalformedFilter ==
    /\ tool.name = "search_with_metadata_filter"
    /\ tool.arguments.metadata_filter # None
    /\ LET given == tool.arguments.metadata_filter[1]
       IN  \/ given.kind # "object"
           \/ \E k \in 1..Len(given.entries) : given.entries[k].is_dict

\* neither the embedding provider nor the vector store has been called
NoNetworkCall == provider_log = << >> /\ store_log = << >>

\* C19: a missing query, a missing document_id or a malformed metadata filter
\* is reported as an error before any call to the embedding provider or the
\* vector store, on the MCP path and on the CLI path
C19_InvalidArgumentBeforeNetwork ==
    (tool.via # "direct" /\ (MissingParameter \/ MalformedFilter))
        => /\ NoNetworkCall
           /\ pc = "returned" => tool.result = "error"

\* the part of C19 the front ends do keep: a missing query or document_id, and
\* on the command line a filter that is not a JSON object, is an error reported
\* with no call to provider or store
C19_MissingParameterBeforeNetwork ==
    (tool.via # "direct"
        /\ (MissingParameter \/ (tool.via = "cli" /\ MalformedFilter
                                   /\ ParseFails(tool.arguments.metadata_filter))))
        => /\ NoNetworkCall
           /\ pc = "returned" => tool.result = "error"

\* C20: handle_tool_call always returns a result and never raises; an unknown
\* tool, a missing required parameter and an exception of the search service
\* give isError, a missing parameter without the service being invoked
C20_ToolCallNeverRaises ==
    (tool.via = "mcp" /\ pc = "returned")
        => /\ tool.result \in {"ok", "error"}
           /\ (tool.name = "unknown_tool" \/ MissingParameter
                 \/ outcome.status = "raised") => tool.result = "error"
           /\ MissingParameter => call = NoCall /\ outcome = NoOutcome /\ NoNetworkCall

\* C20 witness: the search service raised inside a tool call that was given its
\* required parameters, and the tool call returned isError
C20_Witness ==
    /\ tool.via = "mcp"
    /\ pc = "returned"
    /\ ~MissingParameter
    /\ outcome.status = "raised"
    /\ tool.result = "error"

\* the caller of the running hybrid search gave no semantic_weight
WeightAbsent ==
    IF tool.via = "direct" THEN call.semantic_weight = None
    ELSE tool.arguments.semantic_weight = None

\* C21: a hybrid search requested without a semantic_weight fuses with the
\* configured hybrid_semantic_weight, whether the request is a direct call, a
\* CLI command or an MCP tool call
C21_DefaultWeightFromConfig ==
    (call.op = "hybrid_search" /\ WeightAbsent)
        => locals.semantic_weight = config.hybrid_semantic_weight

\* the part of C21 that holds: direct calls and CLI commands without a
\* semantic_weight use the configured weight
C21_DirectAndCliUseConfig ==
    (call.op = "hybrid_search" /\ WeightAbsent /\ tool.via # "mcp")
        => locals.semantic_weight = config.hybrid_semantic_weight

\* C22: with several threads inside the service at once, the embedding cache
\* never holds more than 100 entries, and every entry maps a trimmed query to a
\* vector the provider returned for that query
C22_ConcurrentCacheBoundedAndSound ==
    /\ CacheSize(embedding_cache, cache_others) <= CacheLimit
    /\ \A k \in DOMAIN embedding_cache :
          /\ k = Strip(k)
          /\ << k, embedding_cache[k] >> \in provided

\* the part of C22 that holds in every interleaving: every entry maps a
\* trimmed query to a vector the provider returned for that query
C22_ConcurrentEntriesSound ==
    \A k \in DOMAIN embedding_cache :
        /\ k = Strip(k)
        /\ k # << >>
        /\ << k, embedding_cache[k] >> \in provided

\* the current and the legacy key name of each SearchConfig attribute
ConfigNames(attribute) ==
    CASE attribute = "default_limit" -> {"search_limit", "default_limit"}
      [] attribute = "default_similarity_threshold" ->
             {"similarity_threshold", "default_similarity_threshold"}
      [] OTHER -> {attribute}

\* the values `source` gives an attribute under any of its names
ValuesIn(source, attribute) ==
    { source[k] : k \in ConfigNames(attribute) \cap DOMAIN source }

\* the values of the highest-precedence source that sets the attribute
Precedent(attribute, global_config, config_dict, overrides) ==
    IF ValuesIn(overrides, attribute) # {} THEN ValuesIn(overrides, attribute)
    ELSE IF ValuesIn(config_dict, attribute) # {} THEN ValuesIn(config_dict, attribute)
    ELSE ValuesIn(global_config, attribute)

\* C23: every SearchConfig attribute has the value of the highest-precedence
\* source (keyword overrides, config_dict, global configuration, built-in
\* default) that sets it under its current or its legacy key name
C23_AttributeFromHighestSource ==
    Applied("SearchConfig") =>
        \A attribute \in DOMAIN outcome.value :
            outcome.value[attribute] \in
                Precedent(attribute, locals.global_config, locals.config_dict,
                          locals.overrides)

\* what the code does instead: a legacy key name set in any source wins over
\* the current name, whatever the sources' precedence; among sources using
\* the same name the precedence holds
C23_LegacyNameWins ==
    Applied("SearchConfig") =>
        \A attribute \in DOMAIN outcome.value :
            LET legacy == ConfigNames(attribute) \ DOMAIN GlobalDefaults
                current == ConfigNames(attribute) \cap DOMAIN GlobalDefaults
                Highest(names) ==
                    IF names \cap DOMAIN locals.overrides # {}
                    THEN { locals.overrides[k] : k \in names }
                    ELSE IF names \cap DOMAIN locals.config_dict # {}
                    THEN { locals.config_dict[k] : k \in names }
                    ELSE { locals.global_config[k] : k \in names }
            IN  outcome.value[attribute] \in
                  IF legacy \cap (DOMAIN locals.overrides
                                    \cup DOMAIN locals.config_dict) # {}
                  THEN Highest(legacy)
                  ELSE Highest(current)

\* the second half of C23: no step of the service changes its SearchConfig
C23_ConfigNeverChanges == [][config' = config]_vars

\* C24: a document_retrieval request for an id the store does not hold is
\* answered with a not-found result that is no error: the MCP result is not
\* flagged isError, the CLI command does not exit with a failure code
C24_NotFoundIsNoError ==
    (tool.via # "direct" /\ tool.name = "document_retrieval" /\ pc = "returned"
        /\ call.op = "document_retrieval" /\ outcome = Returned(None))
        => tool.result = "ok"

\* the fused score the specification gives, in ten-thousandths: kw times the
\* boost factor only above 0.8, at most 1.0, weighted with the semantic score
ClaimedFusion(semantic_score, kw, semantic_weight) ==
    LET boosted == IF kw > 80 THEN (kw * KeywordBoostFactor) \div 100 ELSE kw
        clamped == IF boosted > 100 THEN 100 ELSE boosted
    IN  semantic_weight * semantic_score + (100 - semantic_weight) * clamped

\* the keyword score of an id, 0 if the scorer has none for it
ClaimedKw(id, results, query) ==
    LET keyword_scores ==
            CalculateKeywordScores(results, ExtractSearchTerms(query), Lower(query))
    IN  IF id \in DOMAIN keyword_scores THEN keyword_scores[id] ELSE 0

\* C25: every semantic result is rescored with semantic_weight * semantic_score
\* + (1 - semantic_weight) * kw, where kw is the keyword score of its id (0 if
\* absent), multiplied by keyword_boost_factor only when above 0.8 and clamped
\* to 1.0; the rescored list is sorted by descending fused score
C25_FusionFormulaAndOrder ==
    /\ Applied("final_score") =>
          outcome.value = ClaimedFusion(locals.score, locals.keyword_score,
                                        locals.semantic_weight)
    /\ Applied("final_results") =>
          /\ Len(outcome.value) = Len(locals.results)
          /\ IsDescending(outcome.value)
          /\ \A k \in 1..Len(locals.results) :
                \E j \in 1..Len(outcome.value) :
                   /\ outcome.value[j].id = locals.results[k].id
                   /\ outcome.value[j].score =
                         ClaimedFusion(locals.results[k].score,
                                       ClaimedKw(locals.results[k].id,
                                                 locals.results, locals.query),
                                       locals.semantic_weight)

\* C25 witness: a list of several results was fused whose keyword scores lie on
\* both sides of the boost threshold, one of them 0, and whose order changed
C25_Witness ==
    /\ Applied("final_results")
    /\ Len(locals.results) >= 2
    /\ \E k \in 1..Len(locals.results) :
          ClaimedKw(locals.results[k].id, locals.results, locals.query) > 80
    /\ \E k \in 1..Len(locals.results) :
          ClaimedKw(locals.results[k].id, locals.results, locals.query) = 0
    /\ outcome.value[1].id # locals.results[1].id

\* C25 witness of the threshold: one result with a keyword score of exactly 0.8
\* was fused without the boost
C25_WitnessThreshold ==
    /\ Applied("final_score")
    /\ locals.keyword_score = 80
    /\ locals.semantic_weight = 0
    /\ outcome.value = 8000

\* the distinct terms of a list of query terms that occur in a text
DistinctMatches(result, query_terms) ==
    { query_terms[k] : k \in { j \in 1..Len(query_terms) :
                                 Contains(Lower(result.text), query_terms[j]) } }

\* C26: matches counts each distinct query term at most once, so repeating a
\* term in the list of query terms leaves the number of matches unchanged
C26_MatchesCountDistinctTerms ==
    Applied("matches") =>
        outcome.value = Cardinality(DistinctMatches(locals.result, locals.query_terms))

\* what the code counts: every entry of the list that occurs in the text, so
\* that matches is at least the number of distinct terms and at most the
\* number of entries, and equals the former when no term is repeated
C26_MatchesCountEntries ==
    Applied("matches") =>
        LET distinct == Cardinality(DistinctMatches(locals.result, locals.query_terms))
            terms == { locals.query_terms[k] : k \in 1..Len(locals.query_terms) }
        IN  /\ distinct <= outcome.value
            /\ outcome.value <= Len(locals.query_terms)
            /\ Cardinality(terms) = Len(locals.query_terms) => outcome.value = distinct

\* list.remove(x) for each x of `taken` in turn: the first equal element goes
RECURSIVE RemoveEach(_, _)
RemoveEach(list, taken) ==
    IF taken = << >> THEN list
    ELSE LET first == CHOOSE k \in 1..Len(list) :
                         /\ list[k] = Head(taken)
                         /\ \A j \in 1..(k - 1) : list[j] # Head(taken)
         IN  RemoveEach(SubSeq(list, 1, first - 1) \o SubSeq(list, first + 1, Len(list)),
                        Tail(taken))

\* the p-th result of `output` is, among the candidates remaining after the
\* first p-1, the first one in input order with the greatest mmr_score
FirstGreatest(results, output, p, lambda_param) ==
    LET selected == SubSeq(output, 1, p - 1)
        remaining == RemoveEach(results, selected)
        best == MmrScore(output[p], selected, lambda_param)
    IN  \E k \in 1..Len(remaining) :
           /\ remaining[k] = output[p]
           /\ \A j \in 1..Len(remaining) :
                 MmrScore(remaining[j], selected, lambda_param) <= best
           /\ \A j \in 1..(k - 1) :
                 MmrScore(remaining[j], selected, lambda_param) < best

\* C27: at every step _rerank_with_mmr selects the remaining candidate with the
\* greatest mmr_score, the first in input order among equals, so its output is
\* a function of the input list, the limit and lambda
C27_FirstGreatestSelected ==
    Applied("_rerank_with_mmr") =>
        \A p \in 1..Len(outcome.value) :
            FirstGreatest(locals.results, outcome.value, p, locals.lambda_param)

\* C27 witness: two different candidates tied for the greatest mmr_score at the
\* first step, the earlier one was selected, and a later step selected a
\* candidate that is not the next one of the input
C27_Witness ==
    /\ Applied("_rerank_with_mmr")
    /\ Len(locals.results) >= 3
    /\ Len(outcome.value) >= 2
    /\ locals.results[1] # locals.results[2]
    /\ MmrScore(locals.results[1], << >>, locals.lambda_param)
          = MmrScore(locals.results[2], << >>, locals.lambda_param)
    /\ outcome.value[1] = locals.results[1]
    /\ outcome.value[2] # locals.results[2]

\* C28: the diversity penalty of a candidate c is the maximum over every
\* selected item s of cosine_similarity(c.embedding, s.embedding), a similarity
\* with an empty or zero-norm embedding counting as 0, and it is 0 when nothing
\* is selected yet or c has no embedding
C28_PenaltyIsMaxOverSelected ==
    Applied("diversity_penalty") =>
        outcome.value =
            IF locals.selected = << >> \/ ~HasEmbedding(locals.candidate) THEN 0
            ELSE Max({ CosineSimilarity(locals.candidate.embedding,
                                        locals.selected[k].embedding) :
                         k \in 1..Len(locals.selected) })

\* what the code computes: the maximum over the selected items that carry an
\* embedding, and 0 when there is none; the two agree unless a selected item
\* has no embedding and every similarity to the others is negative
C28_PenaltyIsMaxOverEmbedded ==
    Applied("diversity_penalty") =>
        LET embedded == { k \in 1..Len(locals.selected) :
                            HasEmbedding(locals.selected[k]) }
        IN  outcome.value =
              IF ~HasEmbedding(locals.candidate) \/ embedded = {} THEN 0
              ELSE Max({ CosineSimilarity(locals.candidate.embedding,
                                          locals.selected[k].embedding) :
                           k \in embedded })

\* hybrid_search has returned a list
HybridReturned ==
    call.op = "hybrid_search" /\ pc = "done" /\ outcome.status = "returned"

\* the candidates the inner semantic_search call (limit * 2) returned
HybridCandidates == SemanticResults(store_answer, locals.limit, locals.min_score)

\* C29: hybrid_search returns exactly min(limit, n) results, n the number of
\* candidates of its inner semantic_search call; each is a distinct one of the
\* candidates with every field but the score unchanged; none when n = 0
C29_HybridKeepsCandidates ==
    HybridReturned =>
        LET n == Len(HybridCandidates)
            results == outcome.value
        IN  /\ Len(results) = Min(locals.hybrid_limit, n)
            /\ n = 0 => results = << >>
            /\ \E f \in [1..Len(results) -> 1..n] :
                  /\ \A i, j \in 1..Len(results) : i # j => f[i] # f[j]
                  /\ \A i \in 1..Len(results) :
                        [results[i] EXCEPT !.score = HybridCandidates[f[i]].score]
                            = HybridCandidates[f[i]]

\* C29 witness: the inner call returned more candidates than the limit, and
\* the first result returned is a later candidate with a new score
C29_Witness ==
    /\ HybridReturned
    /\ locals.hybrid_limit >= 1
    /\ Len(HybridCandidates) > locals.hybrid_limit
    /\ Len(outcome.value) = locals.hybrid_limit
    /\ outcome.value[1].id # HybridCandidates[1].id
    /\ \E k \in 1..Len(HybridCandidates) :
          /\ HybridCandidates[k].id = outcome.value[1].id
          /\ HybridCandidates[k].score * 100 # outcome.value[1].score

\* the fused score the specification gives the k-th candidate of a hybrid search
ClaimedFused(k) ==
    ClaimedFusion(HybridCandidates[k].score,
                  ClaimedKw(HybridCandidates[k].id, HybridCandidates, call.query[1]),
                  locals.semantic_weight)

\* C30: when no candidate carries an embedding, hybrid_search returns, for every
\* mmr_lambda in [0,1], the min(limit, n) candidates with the highest fused
\* scores in descending order of fused score
C30_NoVectorsTopFused ==
    (HybridReturned
        /\ \A k \in 1..Len(HybridCandidates) : ~HasEmbedding(HybridCandidates[k]))
        => LET n == Len(HybridCandidates)
               results == outcome.value
               returned == { results[i].id : i \in 1..Len(results) }
           IN  /\ Len(results) = Min(locals.hybrid_limit, n)
               /\ IsDescending(results)
               /\ \A i \in 1..Len(results) :
                     \E k \in 1..n : /\ HybridCandidates[k].id = results[i].id
                                     /\ results[i].score = ClaimedFused(k)
               /\ \A k \in 1..n :
                     HybridCandidates[k].id \notin returned
                        => \A i \in 1..Len(results) : ClaimedFused(k) <= results[i].score

\* C30 witness: with mmr_lambda 0 and candidates without embeddings, the store's
\* first candidate has a lower fused score than a later one and more candidates
\* than the limit came back
C30_Witness ==
    /\ HybridReturned
    /\ config.mmr_lambda = 0
    /\ \A k \in 1..Len(HybridCandidates) : ~HasEmbedding(HybridCandidates[k])
    /\ Len(HybridCandidates) > locals.hybrid_limit
    /\ Len(outcome.value) = locals.hybrid_limit
    /\ \E k \in 2..Len(HybridCandidates) : ClaimedFused(1) < ClaimedFused(k)
    /\ outcome.value[1].id # HybridCandidates[1].id

=============================================================================
